---- MODULE Spec2Model ----
(***************************************************************************)
(* vectaraft: the in-memory catalog (one reader/writer lock over the map   *)
(* name -> Collection), the flat index, the line-delimited JSON WAL and    *)
(* the gRPC handlers CreateCollection / Upsert / Query that drive them.    *)
(*                                                                         *)
(* A 32-bit float is modelled by a small integer, or by NaN for a          *)
(* non-finite value.  A WAL line is modelled by the record it encodes,     *)
(* with the JSON value null where serde_json writes null.                  *)
(***************************************************************************)
EXTENDS Integers, Sequences, FiniteSets, TLC

\* ------------------------------------------------------------------ bounds
\* requests issued in one run
MaxRequests == 3
\* restarts (drop the DbState, open a new one on the same WAL path) in one run
MaxRestarts == 1
\* lines of a WAL file found at start-up (SpecReplay)
MaxWalLines == 3

\* ------------------------------------------------------------------ floats
\* a non-finite f32 (NaN, +-inf)
NaN == -999
\* the JSON value null inside a serialised vector
Null == -998

Floats == {0, 1, NaN}

FAdd(x, y) == IF x = NaN \/ y = NaN THEN NaN ELSE x + y
FSub(x, y) == IF x = NaN \/ y = NaN THEN NaN ELSE x - y
FMul(x, y) == IF x = NaN \/ y = NaN THEN NaN ELSE x * y
FNeg(x) == IF x = NaN THEN NaN ELSE 0 - x

Min(a, b) == IF a < b THEN a ELSE b

\* ------------------------------------------------------------------ Metric
Lower(s) ==
  CASE s = "Cosine" -> "cosine"
    [] s = "IP" -> "ip"
    [] OTHER -> s

MetricFromStr(s) ==
  CASE Lower(s) = "cosine" -> "Cosine"
    [] Lower(s) \in {"ip", "inner_product"} -> "IP"
    [] OTHER -> "L2"

\* ------------------------------------------------------------------ scores
\* q.iter().zip(v): the pairs up to the shorter length
RECURSIVE L2From(_, _, _)
L2From(q, v, i) ==
  IF i > Min(Len(q), Len(v)) THEN 0
  ELSE FAdd(FMul(FSub(q[i], v[i]), FSub(q[i], v[i])), L2From(q, v, i + 1))

RECURSIVE DotFrom(_, _, _)
DotFrom(q, v, i) ==
  IF i > Min(Len(q), Len(v)) THEN 0
  ELSE FAdd(FMul(q[i], v[i]), DotFrom(q, v, i + 1))

RECURSIVE SumSqFrom(_, _)
SumSqFrom(x, i) ==
  IF i > Len(x) THEN 0 ELSE FAdd(FMul(x[i], x[i]), SumSqFrom(x, i + 1))

\* dot / (|q| |v|) for finite operands: a monotone image of the quotient,
\* sign(dot) * floor(100 dot^2 / (|q|^2 |v|^2)), exact on the model's floats
CosQuot(dot, nq2, nv2) ==
  LET m == (100 * dot * dot) \div (nq2 * nv2) IN IF dot < 0 THEN 0 - m ELSE m

Cosine(q, v) ==
  LET dot == DotFrom(q, v, 1)
      nq2 == SumSqFrom(q, 1)
      nv2 == SumSqFrom(v, 1)
  IN IF nq2 = 0 \/ nv2 = 0 THEN 0
     ELSE IF dot = NaN \/ nq2 = NaN \/ nv2 = NaN THEN NaN
     ELSE CosQuot(dot, nq2, nv2)

Score(metric, q, v) ==
  CASE metric = "L2" -> FNeg(L2From(q, v, 1))
    [] metric = "IP" -> DotFrom(q, v, 1)
    [] OTHER -> Cosine(q, v)

\* ------------------------------------------------------------------ payload filters
\* serde_json::from_str::<Value>(payload): the top-level fields of a JSON
\* object as <<key, kind, text>>, or "not an object"
JsonObject(p) ==
  CASE p = "{\"k\":1}" -> [obj |-> TRUE, fields |-> {<<"k", "number", "1">>}]
    [] p = "{\"k\":\"1\"}" -> [obj |-> TRUE, fields |-> {<<"k", "string", "1">>}]
    [] p = "{\"k\":null}" -> [obj |-> TRUE, fields |-> {<<"k", "null", "null">>}]
    [] p = "{}" -> [obj |-> TRUE, fields |-> {}]
    [] p = "{\"k\":true}" -> [obj |-> TRUE, fields |-> {<<"k", "bool", "true">>}]
    [] p = "{\"k\":[1]}" -> [obj |-> TRUE, fields |-> {<<"k", "array", "[1]">>}]
    [] p = "{\"k\":{\"j\":1}}" ->
         [obj |-> TRUE, fields |-> {<<"k", "object", "{\"j\":1}">>}]
    [] p = "{\"k\":1,\"j\":\"x\"}" ->
         [obj |-> TRUE, fields |-> {<<"k", "number", "1">>, <<"j", "string", "x">>}]
    [] OTHER -> [obj |-> FALSE, fields |-> {}]

\* a filter that keeps a row when any one pair matches
PayloadMatchesAny(payload, filters) ==
  IF filters = <<>> THEN TRUE
  ELSE LET j == JsonObject(payload) IN
       /\ j.obj
       /\ \E i \in 1..Len(filters) :
            \E f \in j.fields :
              /\ f[1] = filters[i][1]
              /\ f[2] \in {"string", "number", "bool"}
              /\ f[3] = filters[i][2]

PayloadMatchesFilters(payload, filters) ==
  IF filters = <<>> THEN TRUE
  ELSE LET j == JsonObject(payload) IN
       /\ j.obj
       /\ \A i \in 1..Len(filters) :
            \E f \in j.fields :
              /\ f[1] = filters[i][1]
              /\ f[2] \in {"string", "number", "bool"}
              /\ f[3] = filters[i][2]

\* ------------------------------------------------------------------ top-K
\* the comparator |a, b| b.1.partial_cmp(&a.1).unwrap_or(Equal) yields Less
IsLess(a, b) == a.score # NaN /\ b.score # NaN /\ a.score > b.score

\* slice::sort_by and the generic case of select_nth_unstable_by on a short
\* slice: insertion sort, each element shifted left while it is less
RECURSIVE InsertTail(_, _)
InsertTail(s, x) ==
  IF s = <<>> THEN <<x>>
  ELSE IF IsLess(x, s[Len(s)])
       THEN Append(InsertTail(SubSeq(s, 1, Len(s) - 1), x), s[Len(s)])
       ELSE Append(s, x)

RECURSIVE InsertionSort(_)
InsertionSort(s) ==
  IF s = <<>> THEN <<>>
  ELSE InsertTail(InsertionSort(SubSeq(s, 1, Len(s) - 1)), s[Len(s)])

Swap(s, i, j) == [s EXCEPT ![i] = s[j], ![j] = s[i]]

\* reduce(|acc, t| if is_less(t, acc) { t } else { acc })
RECURSIVE MinIndexFrom(_, _, _)
MinIndexFrom(s, acc, i) ==
  IF i > Len(s) THEN acc
  ELSE MinIndexFrom(s, IF IsLess(s[i], s[acc]) THEN i ELSE acc, i + 1)

\* reduce(|acc, t| if is_less(acc, t) { t } else { acc })
RECURSIVE MaxIndexFrom(_, _, _)
MaxIndexFrom(s, acc, i) ==
  IF i > Len(s) THEN acc
  ELSE MaxIndexFrom(s, IF IsLess(s[acc], s[i]) THEN i ELSE acc, i + 1)

\* select_nth_unstable_by(index), index counted from 1 here
SelectNth(s, index) ==
  IF index = Len(s) THEN Swap(s, MaxIndexFrom(s, 1, 2), index)
  ELSE IF index = 1 THEN Swap(s, MinIndexFrom(s, 1, 2), index)
  ELSE InsertionSort(s)

TopK(scored, top_k) ==
  IF scored = <<>> \/ top_k = 0 THEN <<>>
  ELSE LET k == Min(top_k, Len(scored)) IN
       InsertionSort(SubSeq(SelectNth(scored, k), 1, k))

\* ------------------------------------------------------------------ FlatIndex
NewIndex(dim, metric) ==
  [dim |-> dim, vectors |-> <<>>, ids |-> <<>>, payloads |-> <<>>, metric |-> metric]

IndexLen(index) == Len(index.ids)

RECURSIVE Flatten(_)
Flatten(vecs) ==
  IF vecs = <<>> THEN <<>> ELSE Head(vecs) \o Flatten(Tail(vecs))

\* the assertion at the head of add_batch
AddBatchAssert(index, vecs) == \A i \in 1..Len(vecs) : Len(vecs[i]) = index.dim

\* the three column extensions of add_batch, in the order the code makes them
ExtendVectors(index, vecs) == [index EXCEPT !.vectors = @ \o Flatten(vecs)]
\* an add_batch that skips the ids the index already holds
ExtendIdsDedup(index, ids) ==
  LET old == index.ids IN
  [index EXCEPT !.ids = old \o SelectSeq(ids, LAMBDA x : \A i \in 1..Len(old) : old[i] # x)]
ExtendIds(index, ids) == [index EXCEPT !.ids = @ \o ids]
\* an add_batch that leaves the payloads column as it is
ExtendPayloadsNone(index, payloads) == index
ExtendPayloads(index, payloads) == [index EXCEPT !.payloads = @ \o payloads]

AddBatch(index, ids, vecs, payloads) ==
  ExtendPayloads(ExtendIds(ExtendVectors(index, vecs), ids), payloads)

\* ------------------------------------------------------------------ Collection
NewCollection(name, dim, metric) ==
  [name |-> name, dim |-> dim, metric |-> metric, index |-> NewIndex(dim, metric)]

ValidateDim(coll, vector) == Len(vector) = coll.dim

PointIds(points) == [i \in 1..Len(points) |-> points[i].id]
PointVectors(points) == [i \in 1..Len(points) |-> points[i].vector]
PointPayloads(points) == [i \in 1..Len(points) |-> points[i].payload_json]

\* the collection after upsert_batch; the count returned is Len(vectors)
UpsertBatch(coll, ids, vectors, payloads) ==
  IF Len(vectors) = 0 THEN coll
  ELSE [coll EXCEPT !.index = AddBatch(@, ids, vectors, payloads)]

\* &self.index.vectors[offset..offset + dim] of row idx (idx counted from 1)
RowVector(index, idx) ==
  SubSeq(index.vectors, (idx - 1) * index.dim + 1, idx * index.dim)

\* column.get(idx).cloned().unwrap_or_default() (idx counted from 1)
GetOrDefault(column, idx) == IF idx \in 1..Len(column) THEN column[idx] ELSE ""

\* the filter_map of Collection::search, rows in index order
RECURSIVE ScoredFrom(_, _, _, _, _)
ScoredFrom(coll, query, metric, filters, idx) ==
  IF idx > IndexLen(coll.index) THEN <<>>
  ELSE LET rest == ScoredFrom(coll, query, metric, filters, idx + 1) IN
       IF /\ filters # <<>>
          /\ \/ idx > Len(coll.index.payloads)
             \/ ~PayloadMatchesFilters(coll.index.payloads[idx], filters)
       THEN rest
       ELSE <<[idx |-> idx, score |-> Score(metric, query, RowVector(coll.index, idx))]>>
            \o rest

\* a search that selects the top_k rows first and filters them afterwards
CollectionSearchPostFilter(coll, query, top_k, metric_override, filters) ==
  LET metric == IF metric_override = "" THEN coll.metric ELSE metric_override
      all == TopK(ScoredFrom(coll, query, metric, <<>>, 1), top_k)
      best == SelectSeq(all, LAMBDA b :
                filters = <<>> \/
                PayloadMatchesFilters(GetOrDefault(coll.index.payloads, b.idx), filters))
  IN [i \in 1..Len(best) |->
        [id |-> GetOrDefault(coll.index.ids, best[i].idx),
         score |-> best[i].score,
         payload_json |-> GetOrDefault(coll.index.payloads, best[i].idx)]]

\* metric_override: "" stands for None
CollectionSearch(coll, query, top_k, metric_override, filters) ==
  LET metric == IF metric_override = "" THEN coll.metric ELSE metric_override
      best == TopK(ScoredFrom(coll, query, metric, filters, 1), top_k)
  IN [i \in 1..Len(best) |->
        [id |-> GetOrDefault(coll.index.ids, best[i].idx),
         score |-> best[i].score,
         payload_json |-> GetOrDefault(coll.index.payloads, best[i].idx)]]

\* ------------------------------------------------------------------ Catalog
\* the map name -> Collection is a function whose domain is the key set
ContainsKey(cat, name) == name \in DOMAIN cat

\* a create_collection that replaces the collection of a name that exists
CatalogCreateReplacing(cat, name, dim, metric) ==
  [cat |-> [n \in (DOMAIN cat) \cup {name} |->
              IF n = name THEN NewCollection(name, dim, metric) ELSE cat[n]],
   created |-> ~ContainsKey(cat, name)]

\* Catalog::create_collection, as one critical section
CatalogCreate(cat, name, dim, metric) ==
  IF ContainsKey(cat, name) THEN [cat |-> cat, created |-> FALSE]
  ELSE [cat |-> cat @@ (name :> NewCollection(name, dim, metric)), created |-> TRUE]

\* a validation that looks at the first point only
DimsOkFirst(coll, points) == ValidateDim(coll, points[1].vector)

DimsOk(coll, points) == \A i \in 1..Len(points) : ValidateDim(coll, points[i].vector)

\* CollectionHandle::upsert_points run without interleaving; n = -1 is None
UpsertPoints(cat, name, points) ==
  IF points = <<>> THEN [cat |-> cat, n |-> 0]
  ELSE IF ~ContainsKey(cat, name) \/ ~DimsOk(cat[name], points)
  THEN [cat |-> cat, n |-> -1]
  ELSE [cat |-> [cat EXCEPT ![name] = UpsertBatch(@, PointIds(points),
                                        PointVectors(points), PointPayloads(points))],
        n |-> Len(points)]

CatalogLen(cat) == Cardinality(DOMAIN cat)

RECURSIVE SumLens(_, _)
SumLens(cat, names) ==
  IF names = {} THEN 0
  ELSE LET n == CHOOSE x \in names : TRUE IN
       IndexLen(cat[n].index) + SumLens(cat, names \ {n})

TotalPoints(cat) == SumLens(cat, DOMAIN cat)

\* ------------------------------------------------------------------ WAL
\* serde_json writes a non-finite float as null
JsonFloat(x) == IF x = NaN THEN Null ELSE x

\* serde_json::to_string(rec): the line of a record
ToLine(rec) ==
  IF rec.type = "Upsert"
  THEN [rec EXCEPT !.vector = [i \in 1..Len(rec.vector) |-> JsonFloat(rec.vector[i])]]
  ELSE rec

\* serde_json::from_str::<WalRecord>(line) succeeds
Parses(line) ==
  /\ line.type \in {"Upsert", "CreateCollection"}
  /\ line.type = "Upsert" => \A i \in 1..Len(line.vector) : line.vector[i] # Null

BlankLine == [type |-> "Blank"]
GarbageLine == [type |-> "Garbage"]

\* a line that Wal::replay accepts: blank (skipped) or a record
LineOk(line) == line = BlankLine \/ Parses(line)

\* Wal::append that succeeds
WalAppend(f, rec) == Append(f, ToLine(rec))

\* Wal::replay: every non-blank line parsed, or the error of the first line
\* that does not parse; the records read before it are dropped with `out`
RECURSIVE ParsedLines(_)
ParsedLines(f) ==
  IF f = <<>> THEN <<>>
  ELSE IF Head(f) = BlankLine THEN ParsedLines(Tail(f))
  ELSE <<Head(f)>> \o ParsedLines(Tail(f))

HasBadLine(f) == \E i \in 1..Len(f) : ~LineOk(f[i])
FirstBadLine(f) ==
  CHOOSE i \in 1..Len(f) : ~LineOk(f[i]) /\ \A j \in 1..(i - 1) : LineOk(f[j])

\* a replay that streams: the records read before the first bad line are kept
WalReplayPrefix(f) ==
  IF HasBadLine(f)
  THEN [ok |-> TRUE, records |-> ParsedLines(SubSeq(f, 1, FirstBadLine(f) - 1))]
  ELSE [ok |-> TRUE, records |-> ParsedLines(f)]

WalReplay(f) ==
  IF \A i \in 1..Len(f) : LineOk(f[i])
  THEN [ok |-> TRUE, records |-> ParsedLines(f)]
  ELSE [ok |-> FALSE, records |-> <<>>]

\* a replay that creates the collection an Upsert record names when it is missing
ApplyRecordCreating(cat, rec) ==
  IF rec.type = "CreateCollection"
  THEN CatalogCreate(cat, rec.name, rec.dim, MetricFromStr(rec.metric)).cat
  ELSE UpsertPoints(
         CatalogCreate(cat, rec.collection, Len(rec.vector), "L2").cat, rec.collection,
         <<[id |-> rec.id, vector |-> rec.vector,
            payload_json |-> rec.payload_json]>>).cat

\* one iteration of the loop of DbState::replay_wal
ApplyRecord(cat, rec) ==
  IF rec.type = "CreateCollection"
  THEN CatalogCreate(cat, rec.name, rec.dim, MetricFromStr(rec.metric)).cat
  ELSE IF ContainsKey(cat, rec.collection)
       THEN UpsertPoints(cat, rec.collection,
              <<[id |-> rec.id, vector |-> rec.vector,
                 payload_json |-> rec.payload_json]>>).cat
       ELSE cat

RECURSIVE ApplyRecords(_, _)
ApplyRecords(cat, recs) ==
  IF recs = <<>> THEN cat
  ELSE ApplyRecords(ApplyRecord(cat, Head(recs)), Tail(recs))

EmptyCatalog == <<>>

\* DbState::with_config on the WAL file f: the catalog after replay_wal
ReplayWal(walOpen, f) ==
  IF ~walOpen THEN EmptyCatalog
  ELSE LET r == WalReplay(f) IN
       IF r.ok THEN ApplyRecords(EmptyCatalog, r.records) ELSE EmptyCatalog

\* ------------------------------------------------------------------ requests
Threads == {1, 2}

Point(id, vector, payload) == [id |-> id, vector |-> vector, payload_json |-> payload]

CreateReq(name, dims, metric) ==
  [op |-> "CreateCollection", name |-> name, dims |-> dims, metric |-> metric]
UpsertReq(collection, points) ==
  [op |-> "Upsert", collection |-> collection, points |-> points]
QueryReq(collection, vector, top_k, metric_override, with_payloads, filters) ==
  [op |-> "Query", collection |-> collection, vector |-> vector, top_k |-> top_k,
   metric_override |-> metric_override, with_payloads |-> with_payloads,
   filters |-> filters]

CreateRequests ==
  { CreateReq("a", 1, "l2"), CreateReq("a", 2, "Cosine"), CreateReq("a", 0, "l2"),
    CreateReq("", 1, "l2"), CreateReq("b", 1, "ip") }

Batches ==
  { <<>>,
    <<Point("p", <<1>>, "{\"k\":1}")>>,
    <<Point("", <<0>>, ""), Point("q", <<1>>, "{}")>>,
    <<Point("p", <<1>>, "{\"k\":1}"), Point("r", <<1, 0>>, "")>>,
    <<Point("", <<1>>, ""), Point("e", <<>>, "")>>,
    <<Point("n", <<NaN>>, "")>> }

UpsertRequests ==
  { UpsertReq("a", b) : b \in Batches }
    \cup { UpsertReq("", <<Point("p", <<1>>, "")>>),
           UpsertReq("b", <<Point("p", <<1>>, "")>>) }

QueryRequests ==
  { QueryReq("a", <<1>>, 1, "", TRUE, <<>>),
    QueryReq("a", <<0>>, 2, "ip", FALSE, <<<<"k", "1">>>>),
    QueryReq("a", <<1, 0>>, 1, "", TRUE, <<>>),
    QueryReq("a", <<>>, 1, "", TRUE, <<>>),
    QueryReq("", <<1>>, 1, "", TRUE, <<>>),
    QueryReq("c", <<1>>, 1, "", TRUE, <<>>) }

Requests == CreateRequests \cup UpsertRequests \cup QueryRequests

NoReq == [op |-> "None"]

\* ------------------------------------------------------------------ responses
Fail(status) == [status |-> status, upserted |-> 0, hits |-> <<>>]
Ok(upserted, hits) == [status |-> "OK", upserted |-> upserted, hits |-> hits]
NoResp == [status |-> "", upserted |-> 0, hits |-> <<>>]

\* ------------------------------------------------------------------ handlers' local steps
UuidV4(n) == "uuid-" \o ToString(n)

\* the loop of upsert over req.points: ids minted for empty ids, stopped by the
\* first empty vector; u is the number of ids minted so far
RECURSIVE Prepare(_, _, _)
Prepare(points, u, acc) ==
  IF points = <<>> THEN [ok |-> TRUE, prepared |-> acc, uuid |-> u]
  ELSE LET p == Head(points)
           u2 == IF p.id = "" THEN u + 1 ELSE u
           id == IF p.id = "" THEN UuidV4(u2) ELSE p.id
       IN IF p.vector = <<>> THEN [ok |-> FALSE, prepared |-> acc, uuid |-> u2]
          ELSE Prepare(Tail(points), u2,
                 Append(acc, [id |-> id, vector |-> p.vector,
                              payload_json |-> p.payload_json]))

UpsertRecord(collection, p) ==
  [type |-> "Upsert", collection |-> collection, id |-> p.id, vector |-> p.vector,
   payload_json |-> p.payload_json]

WalRecords(collection, prepared) ==
  [i \in 1..Len(prepared) |-> UpsertRecord(collection, prepared[i])]

CreateRecord(r) ==
  [type |-> "CreateCollection", name |-> r.name, dim |-> r.dims, metric |-> r.metric]

\* hits of a Query response: payloads blanked unless with_payloads
QueryHits(coll, r) ==
  LET hits == CollectionSearch(coll, r.vector, r.top_k,
                IF r.metric_override = "" THEN "" ELSE MetricFromStr(r.metric_override),
                r.filters)
  IN [i \in 1..Len(hits) |->
        [hits[i] EXCEPT !.payload_json = IF r.with_payloads THEN @ ELSE ""]]

\* an insert that replaces the whole map by the new entry
MapInsertOnly(cat, name, coll) == [n \in {name} |-> coll]

\* HashMap::insert
MapInsert(cat, name, coll) ==
  [n \in (DOMAIN cat) \cup {name} |-> IF n = name THEN coll ELSE cat[n]]

\* ------------------------------------------------------------------ state
VARIABLES
  catalog,      \* DbState.catalog: name -> Collection
  lock,         \* the catalog's RwLock: the writer (0: none) and the readers
  walOpen,      \* DbState.wal is Some
  file,         \* the lines of the WAL file
  fileExists,   \* the WAL file exists on disk
  th,           \* per handler thread: pc, request, locals, response
  uuid,         \* ids minted so far
  issued,       \* requests issued so far
  restarts,     \* restarts so far
  shadow        \* history: the catalog before the last restart, whether only
                \* successful mutations ran, and a twin service with the WAL on

vars == <<catalog, lock, walOpen, file, fileExists, th, uuid, issued, restarts, shadow>>

FreeLock == [writer |-> 0, readers |-> {}]

Idle ==
  [pc |-> "idle", req |-> NoReq, prepared |-> <<>>, wal_records |-> <<>>,
   resp |-> NoResp]

\* a read guard that a writer does not keep out
CanReadAny(l) == TRUE
\* RwLock::read() returns
CanRead(l) == l.writer = 0
\* a write guard that another writer does not keep out
CanWriteShared(l) == l.readers = {}
\* RwLock::write() returns
CanWrite(l) == l.writer = 0 /\ l.readers = {}

Done(t, resp) == [th EXCEPT ![t].pc = "done", ![t].resp = resp]
Goto(t, pc) == [th EXCEPT ![t].pc = pc]

\* an append that does not look at whether the WAL is open
AppendWalAlways(rec) ==
  /\ file' = WalAppend(file, rec)
  /\ UNCHANGED <<walOpen, fileExists>>

\* DbState::append_wal
AppendWal(rec) ==
  /\ file' = IF walOpen THEN WalAppend(file, rec) ELSE file
  /\ UNCHANGED <<walOpen, fileExists>>

\* a dispatch that does not look at the name and the dims of a CreateCollection
BeginNoCheck(r) ==
  CASE r.op = "CreateCollection" -> [Idle EXCEPT !.req = r, !.pc = "cc_write"]
    [] r.op = "Upsert" ->
         IF r.collection = ""
         THEN [Idle EXCEPT !.req = r, !.pc = "done", !.resp = Fail("InvalidArgument")]
         ELSE [Idle EXCEPT !.req = r, !.pc = "up_get"]
    [] OTHER ->
         IF r.collection = ""
         THEN [Idle EXCEPT !.req = r, !.pc = "done", !.resp = Fail("InvalidArgument")]
         ELSE [Idle EXCEPT !.req = r, !.pc = "q_get"]

\* the first, local checks of a handler
Begin(r) ==
  CASE r.op = "CreateCollection" ->
         IF r.name = "" \/ r.dims = 0
         THEN [Idle EXCEPT !.req = r, !.pc = "done", !.resp = Fail("InvalidArgument")]
         ELSE [Idle EXCEPT !.req = r, !.pc = "cc_write"]
    [] r.op = "Upsert" ->
         IF r.collection = ""
         THEN [Idle EXCEPT !.req = r, !.pc = "done", !.resp = Fail("InvalidArgument")]
         ELSE [Idle EXCEPT !.req = r, !.pc = "up_get"]
    [] OTHER ->
         IF r.collection = ""
         THEN [Idle EXCEPT !.req = r, !.pc = "done", !.resp = Fail("InvalidArgument")]
         ELSE [Idle EXCEPT !.req = r, !.pc = "q_get"]

Issue(t, r) ==
  /\ th[t].pc \in {"idle", "done"}
  /\ issued < MaxRequests
  /\ issued' = issued + 1
  /\ th' = [th EXCEPT ![t] = Begin(r)]
  /\ UNCHANGED <<catalog, lock, walOpen, file, fileExists, uuid, restarts>>

\* ---- CreateCollection
\* a create_collection that does not look at whether the name exists
CcWriteReplace(t) ==
  /\ th[t].pc = "cc_write"
  /\ CanWrite(lock)
  /\ th' = Goto(t, "cc_insert")
  /\ lock' = [lock EXCEPT !.writer = t]
  /\ UNCHANGED <<catalog, walOpen, file, fileExists, uuid, issued, restarts>>

\* Catalog::create_collection: write guard, contains_key
CcWrite(t) ==
  /\ th[t].pc = "cc_write"
  /\ CanWrite(lock)
  /\ IF ContainsKey(catalog, th[t].req.name)
     THEN th' = Done(t, Fail("AlreadyExists")) /\ UNCHANGED lock
     ELSE th' = Goto(t, "cc_insert") /\ lock' = [lock EXCEPT !.writer = t]
  /\ UNCHANGED <<catalog, walOpen, file, fileExists, uuid, issued, restarts>>

\* insert, guard dropped
CcInsert(t) ==
  /\ th[t].pc = "cc_insert"
  /\ catalog' = MapInsert(catalog, th[t].req.name,
                  NewCollection(th[t].req.name, th[t].req.dims,
                                MetricFromStr(th[t].req.metric)))
  /\ lock' = [lock EXCEPT !.writer = 0]
  /\ th' = Goto(t, "cc_wal")
  /\ UNCHANGED <<walOpen, file, fileExists, uuid, issued, restarts>>

CcWal(t) ==
  /\ th[t].pc = "cc_wal"
  /\ AppendWal(CreateRecord(th[t].req))
  /\ th' = Done(t, Ok(0, <<>>))
  /\ UNCHANGED <<catalog, lock, uuid, issued, restarts>>

\* ---- Upsert
\* Catalog::get, then the loop that prepares the points and their WAL records
UpGet(t) ==
  /\ th[t].pc = "up_get"
  /\ CanRead(lock)
  /\ LET r == th[t].req
         p == Prepare(r.points, uuid, <<>>)
     IN IF ~ContainsKey(catalog, r.collection)
        THEN th' = Done(t, Fail("NotFound")) /\ UNCHANGED uuid
        ELSE IF r.points = <<>>
        THEN th' = Done(t, Ok(0, <<>>)) /\ UNCHANGED uuid
        ELSE /\ uuid' = p.uuid
             /\ th' = IF p.ok
                      THEN [th EXCEPT ![t].pc = "up_dims", ![t].prepared = p.prepared,
                              ![t].wal_records = WalRecords(r.collection, p.prepared)]
                      ELSE Done(t, Fail("InvalidArgument"))
  /\ UNCHANGED <<catalog, lock, walOpen, file, fileExists, issued, restarts>>

\* an upsert that goes on to its WAL appends when the validation fails
UpDimsNoReturn(t) ==
  /\ th[t].pc = "up_dims"
  /\ CanRead(lock)
  /\ th' = IF /\ ContainsKey(catalog, th[t].req.collection)
              /\ DimsOk(catalog[th[t].req.collection], th[t].prepared)
           THEN Goto(t, "up_write")
           ELSE Goto(t, "up_wal")
  /\ UNCHANGED <<catalog, lock, walOpen, file, fileExists, uuid, issued, restarts>>

\* upsert_points: dimensions validated under a read guard
UpDims(t) ==
  /\ th[t].pc = "up_dims"
  /\ CanRead(lock)
  /\ th' = IF /\ ContainsKey(catalog, th[t].req.collection)
              /\ DimsOk(catalog[th[t].req.collection], th[t].prepared)
           THEN Goto(t, "up_write")
           ELSE Done(t, Fail("InvalidArgument"))
  /\ UNCHANGED <<catalog, lock, walOpen, file, fileExists, uuid, issued, restarts>>

\* an upsert that extends the vectors column without holding the write guard
UpWriteNoGuard(t) ==
  /\ th[t].pc = "up_write"
  /\ LET name == th[t].req.collection
         vecs == PointVectors(th[t].prepared)
     IN IF ~ContainsKey(catalog, name)
        THEN th' = Done(t, Fail("InvalidArgument")) /\ UNCHANGED <<catalog, lock>>
        ELSE IF ~AddBatchAssert(catalog[name].index, vecs)
        THEN th' = Done(t, Fail("Panicked")) /\ UNCHANGED <<catalog, lock>>
        ELSE /\ catalog' = [catalog EXCEPT ![name].index = ExtendVectors(@, vecs)]
             /\ UNCHANGED lock
             /\ th' = Goto(t, "up_ids")
  /\ UNCHANGED <<walOpen, file, fileExists, uuid, issued, restarts>>

\* with_mut: write guard; add_batch asserts and extends the vectors column
UpWrite(t) ==
  /\ th[t].pc = "up_write"
  /\ CanWrite(lock)
  /\ LET name == th[t].req.collection
         vecs == PointVectors(th[t].prepared)
     IN IF ~ContainsKey(catalog, name)
        THEN th' = Done(t, Fail("InvalidArgument")) /\ UNCHANGED <<catalog, lock>>
        ELSE IF ~AddBatchAssert(catalog[name].index, vecs)
        THEN th' = Done(t, Fail("Panicked")) /\ UNCHANGED <<catalog, lock>>
        ELSE /\ catalog' = [catalog EXCEPT ![name].index = ExtendVectors(@, vecs)]
             /\ lock' = [lock EXCEPT !.writer = t]
             /\ th' = Goto(t, "up_ids")
  /\ UNCHANGED <<walOpen, file, fileExists, uuid, issued, restarts>>

UpIds(t) ==
  /\ th[t].pc = "up_ids"
  /\ catalog' = [catalog EXCEPT ![th[t].req.collection].index =
                   ExtendIds(@, PointIds(th[t].prepared))]
  /\ th' = Goto(t, "up_payloads")
  /\ UNCHANGED <<lock, walOpen, file, fileExists, uuid, issued, restarts>>

\* an upsert that keeps the write guard after the last column write
UpPayloadsKeepGuard(t) ==
  /\ th[t].pc = "up_payloads"
  /\ catalog' = [catalog EXCEPT ![th[t].req.collection].index =
                   ExtendPayloads(@, PointPayloads(th[t].prepared))]
  /\ th' = Goto(t, "up_wal")
  /\ UNCHANGED <<lock, walOpen, file, fileExists, uuid, issued, restarts>>

\* payloads column extended, guard dropped
UpPayloads(t) ==
  /\ th[t].pc = "up_payloads"
  /\ catalog' = [catalog EXCEPT ![th[t].req.collection].index =
                   ExtendPayloads(@, PointPayloads(th[t].prepared))]
  /\ lock' = [lock EXCEPT !.writer = 0]
  /\ th' = Goto(t, "up_wal")
  /\ UNCHANGED <<walOpen, file, fileExists, uuid, issued, restarts>>

\* one turn of the loop over wal_records
UpWal(t) ==
  /\ th[t].pc = "up_wal"
  /\ AppendWal(Head(th[t].wal_records))
  /\ th' = IF Len(th[t].wal_records) = 1
           THEN [th EXCEPT ![t].pc = "done", ![t].wal_records = <<>>,
                   ![t].resp = Ok(Len(th[t].prepared), <<>>)]
           ELSE [th EXCEPT ![t].wal_records = Tail(@)]
  /\ UNCHANGED <<catalog, lock, uuid, issued, restarts>>

\* ---- Query
QGet(t) ==
  /\ th[t].pc = "q_get"
  /\ CanRead(lock)
  /\ th' = IF ~ContainsKey(catalog, th[t].req.collection)
           THEN Done(t, Fail("NotFound"))
           ELSE IF th[t].req.vector = <<>>
           THEN Done(t, Fail("InvalidArgument"))
           ELSE Goto(t, "q_dims")
  /\ UNCHANGED <<catalog, lock, walOpen, file, fileExists, uuid, issued, restarts>>

\* CollectionHandle::search: dimension validated under a read guard
QDims(t) ==
  /\ th[t].pc = "q_dims"
  /\ CanRead(lock)
  /\ th' = IF /\ ContainsKey(catalog, th[t].req.collection)
              /\ ValidateDim(catalog[th[t].req.collection], th[t].req.vector)
           THEN Goto(t, "q_read")
           ELSE Done(t, Fail("InvalidArgument"))
  /\ UNCHANGED <<catalog, lock, walOpen, file, fileExists, uuid, issued, restarts>>

\* with_ref: read guard taken
QRead(t) ==
  /\ th[t].pc = "q_read"
  /\ CanRead(lock)
  /\ IF ContainsKey(catalog, th[t].req.collection)
     THEN th' = Goto(t, "q_scan") /\ lock' = [lock EXCEPT !.readers = @ \cup {t}]
     ELSE th' = Done(t, Fail("InvalidArgument")) /\ UNCHANGED lock
  /\ UNCHANGED <<catalog, walOpen, file, fileExists, uuid, issued, restarts>>

\* a search whose metric override becomes the collection's metric
QScanSticky(t) ==
  /\ th[t].pc = "q_scan"
  /\ th' = Done(t, Ok(0, QueryHits(catalog[th[t].req.collection], th[t].req)))
  /\ lock' = [lock EXCEPT !.readers = @ \ {t}]
  /\ catalog' = IF th[t].req.metric_override = "" THEN catalog
                ELSE [catalog EXCEPT ![th[t].req.collection].metric =
                        MetricFromStr(th[t].req.metric_override)]
  /\ UNCHANGED <<walOpen, file, fileExists, uuid, issued, restarts>>

\* Collection::search under the guard, guard dropped
QScan(t) ==
  /\ th[t].pc = "q_scan"
  /\ th' = Done(t, Ok(0, QueryHits(catalog[th[t].req.collection], th[t].req)))
  /\ lock' = [lock EXCEPT !.readers = @ \ {t}]
  /\ UNCHANGED <<catalog, walOpen, file, fileExists, uuid, issued, restarts>>

Quiescent == \A t \in Threads : th[t].pc \in {"idle", "done"}

\* the appends of a handler that runs to its end, in order
RECURSIVE AppendAll(_, _)
AppendAll(f, recs) ==
  IF recs = <<>> THEN f ELSE AppendAll(WalAppend(f, Head(recs)), Tail(recs))

\* a restart whose replay appends the records it applies to the WAL again
RestartAppending ==
  /\ Quiescent
  /\ restarts < MaxRestarts
  /\ restarts' = restarts + 1
  /\ catalog' = ReplayWal(walOpen, file)
  /\ file' = IF walOpen /\ WalReplay(file).ok
             THEN AppendAll(file, WalReplay(file).records) ELSE file
  /\ lock' = FreeLock
  /\ th' = [t \in Threads |-> Idle]
  /\ UNCHANGED <<walOpen, fileExists, uuid, issued>>

\* the process ends with no request in flight and DbState::with_config runs again
\* on the same configuration
Restart ==
  /\ Quiescent
  /\ restarts < MaxRestarts
  /\ restarts' = restarts + 1
  /\ catalog' = ReplayWal(walOpen, file)
  /\ lock' = FreeLock
  /\ th' = [t \in Threads |-> Idle]
  /\ UNCHANGED <<walOpen, file, fileExists, uuid, issued>>

\* ------------------------------------------------------------------ a handler run to its end
\* the handlers of a service whose WAL is open, each run without interleaving
\* on db = [catalog, file, uuid, resp]
ServeCreate(db, r) ==
  IF r.name = "" \/ r.dims = 0 THEN [db EXCEPT !.resp = Fail("InvalidArgument")]
  ELSE LET c == CatalogCreate(db.catalog, r.name, r.dims, MetricFromStr(r.metric)) IN
       IF ~c.created THEN [db EXCEPT !.resp = Fail("AlreadyExists")]
       ELSE [db EXCEPT !.catalog = c.cat, !.file = WalAppend(@, CreateRecord(r)),
                       !.resp = Ok(0, <<>>)]

ServeUpsert(db, r) ==
  IF r.collection = "" THEN [db EXCEPT !.resp = Fail("InvalidArgument")]
  ELSE IF ~ContainsKey(db.catalog, r.collection) THEN [db EXCEPT !.resp = Fail("NotFound")]
  ELSE IF r.points = <<>> THEN [db EXCEPT !.resp = Ok(0, <<>>)]
  ELSE LET p == Prepare(r.points, db.uuid, <<>>) IN
       IF ~p.ok THEN [db EXCEPT !.uuid = p.uuid, !.resp = Fail("InvalidArgument")]
       ELSE LET u == UpsertPoints(db.catalog, r.collection, p.prepared) IN
            IF u.n = -1 THEN [db EXCEPT !.uuid = p.uuid, !.resp = Fail("InvalidArgument")]
            ELSE [db EXCEPT !.uuid = p.uuid, !.catalog = u.cat,
                            !.file = AppendAll(@, WalRecords(r.collection, p.prepared)),
                            !.resp = Ok(u.n, <<>>)]

ServeQuery(db, r) ==
  IF r.collection = "" THEN [db EXCEPT !.resp = Fail("InvalidArgument")]
  ELSE IF ~ContainsKey(db.catalog, r.collection) THEN [db EXCEPT !.resp = Fail("NotFound")]
  ELSE IF r.vector = <<>> THEN [db EXCEPT !.resp = Fail("InvalidArgument")]
  ELSE IF ~ValidateDim(db.catalog[r.collection], r.vector)
  THEN [db EXCEPT !.resp = Fail("InvalidArgument")]
  ELSE [db EXCEPT !.resp = Ok(0, QueryHits(db.catalog[r.collection], r))]

Serve(db, r) ==
  CASE r.op = "CreateCollection" -> ServeCreate(db, r)
    [] r.op = "Upsert" -> ServeUpsert(db, r)
    [] OTHER -> ServeQuery(db, r)

\* ------------------------------------------------------------------ history
ShadowInit ==
  [prev |-> EmptyCatalog, clean |-> TRUE,
   ref |-> [catalog |-> EmptyCatalog, file |-> <<>>, uuid |-> 0, resp |-> NoResp]]

\* a request that ended did so with OK
EndedOk(t) == th'[t].pc = "done" => th'[t].resp.status = "OK"

ShadowIssue(t, r) ==
  shadow' = [shadow EXCEPT !.ref = Serve(@, r),
                           !.clean = @ /\ r.op # "Query" /\ EndedOk(t)]

ShadowHandle(t) == shadow' = [shadow EXCEPT !.clean = @ /\ EndedOk(t)]

ShadowRestart == shadow' = [shadow EXCEPT !.prev = catalog]

\* ------------------------------------------------------------------ specifications
\* Spec: one handler at a time on a new WAL path (or with the WAL disabled),
\* with restarts
Init ==
  /\ walOpen \in BOOLEAN
  /\ fileExists = walOpen
  /\ file = <<>>
  /\ catalog = ReplayWal(walOpen, file)
  /\ lock = FreeLock
  /\ th = [t \in Threads |-> Idle]
  /\ uuid = 0
  /\ issued = 0
  /\ restarts = 0
  /\ shadow = ShadowInit

Next ==
  \/ \E r \in Requests : Issue(1, r) /\ ShadowIssue(1, r)
  \/ CcWrite(1) /\ ShadowHandle(1)
  \/ CcInsert(1) /\ ShadowHandle(1)
  \/ CcWal(1) /\ ShadowHandle(1)
  \/ UpGet(1) /\ ShadowHandle(1)
  \/ UpDims(1) /\ ShadowHandle(1)
  \/ UpWrite(1) /\ ShadowHandle(1)
  \/ UpIds(1) /\ ShadowHandle(1)
  \/ UpPayloads(1) /\ ShadowHandle(1)
  \/ UpWal(1) /\ ShadowHandle(1)
  \/ QGet(1) /\ ShadowHandle(1)
  \/ QDims(1) /\ ShadowHandle(1)
  \/ QRead(1) /\ ShadowHandle(1)
  \/ QScan(1) /\ ShadowHandle(1)
  \/ Restart /\ ShadowRestart

Spec == Init /\ [][Next]_vars

\* SpecConc: two handler threads on a WAL that already holds collection "a"
ConcRequests ==
  { CreateReq("b", 1, "l2"), CreateReq("b", 2, "Cosine"),
    UpsertReq("a", <<Point("p", <<1>>, "{\"k\":1}")>>),
    UpsertReq("a", <<Point("q", <<0>>, ""), Point("r", <<1>>, "{}")>>),
    UpsertReq("a", <<Point("s", <<1>>, ""), Point("t", <<1, 0>>, "")>>),
    UpsertReq("a", <<Point("", <<1>>, ""), Point("e", <<>>, "")>>),
    UpsertReq("b", <<Point("u", <<1>>, "")>>),
    QueryReq("a", <<1>>, 2, "", TRUE, <<>>) }

ConcWal == <<ToLine(CreateRecord(CreateReq("a", 1, "l2")))>>

InitConc ==
  /\ walOpen = TRUE
  /\ fileExists = TRUE
  /\ file = ConcWal
  /\ catalog = ReplayWal(walOpen, file)
  /\ lock = FreeLock
  /\ th = [t \in Threads |-> Idle]
  /\ uuid = 0
  /\ issued = 0
  /\ restarts = 0
  /\ shadow = ShadowInit

NextConc ==
  \E t \in Threads :
    \/ \E r \in ConcRequests : Issue(t, r) /\ UNCHANGED shadow
    \/ CcWrite(t) /\ UNCHANGED shadow
    \/ CcInsert(t) /\ UNCHANGED shadow
    \/ CcWal(t) /\ UNCHANGED shadow
    \/ UpGet(t) /\ UNCHANGED shadow
    \/ UpDims(t) /\ UNCHANGED shadow
    \/ UpWrite(t) /\ UNCHANGED shadow
    \/ UpIds(t) /\ UNCHANGED shadow
    \/ UpPayloads(t) /\ UNCHANGED shadow
    \/ UpWal(t) /\ UNCHANGED shadow
    \/ QGet(t) /\ UNCHANGED shadow
    \/ QDims(t) /\ UNCHANGED shadow
    \/ QRead(t) /\ UNCHANGED shadow
    \/ QScan(t) /\ UNCHANGED shadow

SpecConc == InitConc /\ [][NextConc]_vars

\* SpecReplay: a DbState opened on a WAL file of any content, then serving
WalLines ==
  { BlankLine, GarbageLine,
    ToLine(CreateRecord(CreateReq("a", 1, "l2"))),
    ToLine(CreateRecord(CreateReq("a", 2, "Cosine"))),
    ToLine(UpsertRecord("a", Point("p", <<1>>, "{\"k\":1}"))),
    ToLine(UpsertRecord("a", Point("n", <<NaN>>, ""))),
    ToLine(UpsertRecord("b", Point("u", <<1>>, ""))),
    ToLine(CreateRecord(CreateReq("b", 1, "ip"))) }

RECURSIVE SeqsUpTo(_, _)
SeqsUpTo(S, n) ==
  IF n = 0 THEN {<<>>}
  ELSE LET shorter == SeqsUpTo(S, n - 1) IN
       shorter \cup {Append(s, x) : s \in {z \in shorter : Len(z) = n - 1}, x \in S}

ReplayRequests ==
  { CreateReq("b", 1, "ip"),
    UpsertReq("a", <<Point("p", <<1>>, "{\"k\":1}")>>),
    QueryReq("a", <<1>>, 1, "", TRUE, <<>>) }

InitReplay ==
  /\ walOpen = TRUE
  /\ fileExists = TRUE
  /\ file \in SeqsUpTo(WalLines, MaxWalLines)
  /\ catalog = ReplayWal(walOpen, file)
  /\ lock = FreeLock
  /\ th = [t \in Threads |-> Idle]
  /\ uuid = 0
  /\ issued = 0
  /\ restarts = 0
  /\ shadow = ShadowInit

NextReplay ==
  \/ \E r \in ReplayRequests : Issue(1, r) /\ UNCHANGED shadow
  \/ CcWrite(1) /\ UNCHANGED shadow
  \/ CcInsert(1) /\ UNCHANGED shadow
  \/ CcWal(1) /\ UNCHANGED shadow
  \/ UpGet(1) /\ UNCHANGED shadow
  \/ UpDims(1) /\ UNCHANGED shadow
  \/ UpWrite(1) /\ UNCHANGED shadow
  \/ UpIds(1) /\ UNCHANGED shadow
  \/ UpPayloads(1) /\ UNCHANGED shadow
  \/ UpWal(1) /\ UNCHANGED shadow
  \/ QGet(1) /\ UNCHANGED shadow
  \/ QDims(1) /\ UNCHANGED shadow
  \/ QRead(1) /\ UNCHANGED shadow
  \/ QScan(1) /\ UNCHANGED shadow
  \/ Restart /\ UNCHANGED shadow

SpecReplay == InitReplay /\ [][NextReplay]_vars

\* ------------------------------------------------------------------ claims
\* no request has been issued since the DbState was opened
Fresh == \A t \in Threads : th[t].pc = "idle"

\* the top-1 hit (id, payload) of a query under the collection's metric
Top1(coll, q) ==
  LET h == CollectionSearch(coll, q, 1, "", <<>>)
  IN [i \in 1..Len(h) |-> <<h[i].id, h[i].payload_json>>]

SameAnswers(c1, c2) ==
  /\ CatalogLen(c1) = CatalogLen(c2)
  /\ TotalPoints(c1) = TotalPoints(c2)
  /\ \A n \in DOMAIN c1 :
       /\ n \in DOMAIN c2
       /\ \A q \in [1..c1[n].dim -> {0, 1}] : Top1(c1[n], q) = Top1(c2[n], q)

\* C1: after only successful CreateCollection and Upsert requests, run one after
\* another on a new WAL, a DbState opened again on that WAL has as many
\* collections and points as the one before and gives the same top-1 hit to
\* every query.
C1_RoundTrip ==
  (Fresh /\ restarts = 1 /\ walOpen /\ shadow.clean) => SameAnswers(shadow.prev, catalog)

\* the Upsert lines of collection c, in file order
RECURSIVE UpsertLinesOf(_, _)
UpsertLinesOf(f, c) ==
  IF f = <<>> THEN <<>>
  ELSE IF Head(f).type = "Upsert" /\ Head(f).collection = c
       THEN <<Head(f)>> \o UpsertLinesOf(Tail(f), c)
       ELSE UpsertLinesOf(Tail(f), c)

\* the WAL lines of the complete rows of a collection, in row order
RowLines(coll) ==
  [i \in 1..Min(Len(coll.index.ids), Len(coll.index.payloads)) |->
     ToLine(UpsertRecord(coll.name,
       [id |-> coll.index.ids[i], vector |-> RowVector(coll.index, i),
        payload_json |-> coll.index.payloads[i]]))]

RECURSIVE IsSubseq(_, _)
IsSubseq(a, b) ==
  IF a = <<>> THEN TRUE
  ELSE IF b = <<>> THEN FALSE
  ELSE IF Head(a) = Head(b) THEN IsSubseq(Tail(a), Tail(b))
  ELSE IsSubseq(a, Tail(b))

CreateFirst ==
  \A i \in 1..Len(file) :
    file[i].type = "Upsert" =>
      \E j \in 1..(i - 1) :
        file[j].type = "CreateCollection" /\ file[j].name = file[i].collection

\* C2: the records of the WAL are in the order in which their mutations took
\* effect in the catalog: the Upsert records of a collection follow the order of
\* its rows, and they come after the record that created the collection.
C2_WalOrder ==
  /\ \A c \in DOMAIN catalog : IsSubseq(UpsertLinesOf(file, c), RowLines(catalog[c]))
  /\ CreateFirst

ColumnsOk(coll) ==
  /\ Len(coll.index.vectors) = Len(coll.index.ids) * coll.dim
  /\ Len(coll.index.ids) = Len(coll.index.payloads)

\* thread u is between the first and the last column write of a batch on n
MidBatch(u, n) ==
  th[u].pc \in {"up_ids", "up_payloads"} /\ th[u].req.collection = n

\* C3: while a search holds its read guard on a collection, no batch is partly
\* written there: the three columns agree and no upsert is between its first and
\* last column write.
C3_WholeBatches ==
  \A t \in Threads :
    th[t].pc = "q_scan" =>
      /\ ColumnsOk(catalog[th[t].req.collection])
      /\ \A u \in Threads : ~MidBatch(u, th[t].req.collection)

\* a search scans while a two-point batch for the same collection waits for the
\* write guard
C3_Witness ==
  \E t, u \in Threads :
    /\ th[t].pc = "q_scan"
    /\ th[u].pc = "up_write"
    /\ Len(th[u].prepared) = 2
    /\ th[u].req.collection = th[t].req.collection

RECURSIVE Count(_, _)
Count(s, x) ==
  IF s = <<>> THEN 0
  ELSE (IF Head(s) = x THEN 1 ELSE 0) + Count(Tail(s), x)

\* every record of the WAL has its mutation in the catalog
LoggedApplied ==
  \A i \in 1..Len(file) :
    IF file[i].type = "CreateCollection"
    THEN /\ file[i].name \in DOMAIN catalog
         /\ catalog[file[i].name].dim = file[i].dim
         /\ catalog[file[i].name].metric = MetricFromStr(file[i].metric)
    ELSE /\ file[i].collection \in DOMAIN catalog
         /\ Count(UpsertLinesOf(file, file[i].collection), file[i])
              <= Count(RowLines(catalog[file[i].collection]), file[i])

\* a handler that has reached its WAL appends has applied its mutation
AppliedBeforeLog ==
  \A t \in Threads :
    /\ th[t].pc = "cc_wal" =>
         /\ th[t].req.name \in DOMAIN catalog
         /\ catalog[th[t].req.name].dim = th[t].req.dims
    /\ th[t].pc = "up_wal" =>
         /\ th[t].req.collection \in DOMAIN catalog
         /\ IsSubseq([i \in 1..Len(th[t].prepared) |->
                        ToLine(UpsertRecord(th[t].req.collection, th[t].prepared[i]))],
                     RowLines(catalog[th[t].req.collection]))

\* only such a handler appends, and it ends with OK
LogOnlyAfterApply ==
  /\ file' # file =>
       \E t \in Threads : th[t].pc \in {"cc_wal", "up_wal"} /\ th'[t] # th[t]
  /\ \A t \in Threads :
       (th[t].pc \in {"cc_wal", "up_wal"} /\ th'[t].pc = "done")
         => th'[t].resp.status = "OK"

\* C4: a WAL record is appended only after its mutation has been applied in
\* memory: every record of the file has its collection or row in the catalog,
\* only a handler past its mutation appends, and a request that fails appends
\* nothing.
C4_ApplyThenLog ==
  [](LoggedApplied /\ AppliedBeforeLog) /\ [][LogOnlyAfterApply]_vars

\* a record is in the WAL beyond those found at start-up, and a request has failed
C4_Witness ==
  /\ Len(file) > Len(ConcWal)
  /\ file[Len(file)].type = "Upsert"
  /\ \E t \in Threads : th[t].pc = "done" /\ th[t].resp.status = "InvalidArgument"

HasBadPoint(points, coll) ==
  \E i \in 1..Len(points) :
    points[i].vector = <<>> \/ Len(points[i].vector) # coll.dim

\* a step of the Upsert that thread t is running, on a collection that exists,
\* one of whose points has an empty vector or a vector of the wrong length
BadUpsertStep(t) ==
  /\ th[t].req.op = "Upsert"
  /\ th[t].pc \notin {"idle", "done"}
  /\ th'[t] # th[t]
  /\ th[t].req.collection \in DOMAIN catalog
  /\ HasBadPoint(th[t].req.points, catalog[th[t].req.collection])

\* C5: an Upsert on an existing collection with a point whose vector is empty
\* or not of the collection's dim changes nothing: none of its steps changes
\* the catalog or the WAL, and it ends with InvalidArgument.
C5_BadUpsertChangesNothing ==
  [][\A t \in Threads :
       BadUpsertStep(t) =>
         /\ catalog' = catalog
         /\ file' = file
         /\ th'[t].pc = "done" => th'[t].resp.status = "InvalidArgument"]_vars

\* an Upsert whose first point is valid and whose second is not has ended with
\* InvalidArgument, and the collection is still empty
C5_Witness ==
  \E t \in Threads :
    /\ th[t].pc = "done"
    /\ th[t].req.op = "Upsert"
    /\ th[t].resp.status = "InvalidArgument"
    /\ Len(th[t].req.points) = 2
    /\ th[t].req.collection \in DOMAIN catalog
    /\ Len(th[t].req.points[1].vector) = catalog[th[t].req.collection].dim
    /\ HasBadPoint(th[t].req.points, catalog[th[t].req.collection])
    /\ IndexLen(catalog[th[t].req.collection].index) = 0

OneCreatePerName ==
  \A i, j \in 1..Len(file) :
    (/\ file[i].type = "CreateCollection"
     /\ file[j].type = "CreateCollection"
     /\ file[i].name = file[j].name) => i = j

\* a CreateCollection whose arguments passed the handler's checks meets a name
\* that exists
DuplicateRejected ==
  \A t \in Threads :
    (th[t].pc = "cc_write" /\ th'[t] # th[t] /\ th[t].req.name \in DOMAIN catalog)
      => /\ th'[t].pc = "done"
         /\ th'[t].resp.status = "AlreadyExists"
         /\ catalog' = catalog
         /\ file' = file

\* C6: a CreateCollection for a name that exists fails with AlreadyExists and
\* changes neither the catalog nor the WAL, so the WAL never holds two
\* CreateCollection records of one name.
C6_DuplicateCreate == []OneCreatePerName /\ [][DuplicateRejected]_vars

\* Catalog::create_collection returned true / false to thread t
Created(t) ==
  /\ th[t].req.op = "CreateCollection"
  /\ th[t].pc = "cc_wal" \/ (th[t].pc = "done" /\ th[t].resp.status = "OK")
Refused(t) ==
  /\ th[t].req.op = "CreateCollection"
  /\ th[t].pc = "done"
  /\ th[t].resp.status = "AlreadyExists"

\* C7: of the calls of create_collection with one name, one returns true and
\* the others false, and the collection has the dim and metric of the call that
\* returned true.
C7_AtomicInsertIfAbsent ==
  /\ \A t, u \in Threads :
       (Created(t) /\ Created(u) /\ th[t].req.name = th[u].req.name) => t = u
  /\ \A t \in Threads :
       Created(t) =>
         /\ th[t].req.name \in DOMAIN catalog
         /\ catalog[th[t].req.name].dim = th[t].req.dims
         /\ catalog[th[t].req.name].metric = MetricFromStr(th[t].req.metric)
         /\ catalog[th[t].req.name].index.dim = th[t].req.dims
  /\ \A t \in Threads : Refused(t) => th[t].req.name \in DOMAIN catalog

\* two overlapping calls with one name and different dims: one has returned
\* false while the other, which returned true, has not yet ended
C7_Witness ==
  \E t, u \in Threads :
    /\ Created(t) /\ th[t].pc = "cc_wal"
    /\ Refused(u)
    /\ th[t].req.name = th[u].req.name
    /\ th[t].req.dims # th[u].req.dims

\* C8 as claimed: a DbState opened on a WAL with a malformed line holds the
\* records that precede that line
C8_PrefixApplied ==
  (Fresh /\ walOpen /\ HasBadLine(file)) =>
    catalog = ApplyRecords(EmptyCatalog,
                ParsedLines(SubSeq(file, 1, FirstBadLine(file) - 1)))

\* C8, amended: a DbState opened on a WAL with a malformed line holds no
\* record of the file at all: its catalog is empty.
C8_StartsEmpty == (Fresh /\ walOpen /\ HasBadLine(file)) => catalog = EmptyCatalog

\* a WAL whose first line creates a collection and a later line is malformed has
\* been opened
C8_Witness ==
  /\ Fresh /\ walOpen /\ HasBadLine(file)
  /\ FirstBadLine(file) > 1
  /\ file[1].type = "CreateCollection"
  /\ catalog = EmptyCatalog

\* line i is an Upsert record with no CreateCollection of its collection before it
Orphan(f, i) ==
  /\ Parses(f[i])
  /\ f[i].type = "Upsert"
  /\ ~\E j \in 1..(i - 1) :
        f[j].type = "CreateCollection" /\ f[j].name = f[i].collection

RECURSIVE WithoutOrphansFrom(_, _)
WithoutOrphansFrom(f, i) ==
  IF i > Len(f) THEN <<>>
  ELSE (IF Orphan(f, i) THEN <<>> ELSE <<f[i]>>) \o WithoutOrphansFrom(f, i + 1)

\* C9: replay drops an Upsert record whose collection does not exist and goes
\* on: the catalog is the one the file without such records gives, and it has
\* no collection that no CreateCollection record names.
C9_OrphanDropped ==
  (Fresh /\ walOpen) =>
    /\ catalog = ReplayWal(TRUE, WithoutOrphansFrom(file, 1))
    /\ \A n \in DOMAIN catalog :
         \E j \in 1..Len(file) : file[j].type = "CreateCollection" /\ file[j].name = n

\* a WAL with an Upsert for a missing collection followed by an Upsert that was
\* applied has been opened
C9_Witness ==
  /\ Fresh /\ walOpen
  /\ \E i, j \in 1..Len(file) :
       /\ i < j
       /\ Orphan(file, i)
       /\ file[i].collection \notin DOMAIN catalog
       /\ file[j].type = "Upsert"
       /\ file[j].collection \in DOMAIN catalog
       /\ IndexLen(catalog[file[j].collection].index) >= 1

\* C10: with the WAL disabled no WAL file is created or written, and until a
\* restart every response, and the catalog between requests, is that of the
\* same requests served with the WAL enabled.
C10_NoWal ==
  ~walOpen =>
    /\ file = <<>>
    /\ ~fileExists
    /\ restarts = 0 =>
         /\ th[1].pc = "done" => th[1].resp = shadow.ref.resp
         /\ Quiescent => catalog = shadow.ref.catalog

\* with the WAL disabled a collection was created, a point upserted and a query
\* answered with a hit
C10_Witness ==
  /\ ~walOpen
  /\ restarts = 0
  /\ th[1].pc = "done"
  /\ th[1].req.op = "Query"
  /\ Len(th[1].resp.hits) >= 1
  /\ shadow.ref.file # <<>>

\* ------------------------------------------------------------------ failing appends
\* DbState::append_wal when Wal::append returns Err before a byte is written
\* (the open of the file fails): the error is logged, the file is as it was
AppendWalErr(rec) ==
  /\ walOpen
  /\ UNCHANGED <<file, walOpen, fileExists>>

\* create_collection: the append fails, the handler answers Ok
CcWalErr(t) ==
  /\ th[t].pc = "cc_wal"
  /\ AppendWalErr(CreateRecord(th[t].req))
  /\ th' = Done(t, Ok(0, <<>>))
  /\ UNCHANGED <<catalog, lock, uuid, issued, restarts>>

\* an upsert handler that gives up with an error when an append fails
UpWalErrAbort(t) ==
  /\ th[t].pc = "up_wal"
  /\ AppendWalErr(Head(th[t].wal_records))
  /\ th' = [th EXCEPT ![t].pc = "done", ![t].wal_records = <<>>,
                      ![t].resp = Fail("Internal")]
  /\ UNCHANGED <<catalog, lock, uuid, issued, restarts>>

\* one turn of the loop over wal_records whose append fails: the loop goes on
UpWalErr(t) ==
  /\ th[t].pc = "up_wal"
  /\ AppendWalErr(Head(th[t].wal_records))
  /\ th' = IF Len(th[t].wal_records) = 1
           THEN [th EXCEPT ![t].pc = "done", ![t].wal_records = <<>>,
                   ![t].resp = Ok(Len(th[t].prepared), <<>>)]
           ELSE [th EXCEPT ![t].wal_records = Tail(@)]
  /\ UNCHANGED <<catalog, lock, uuid, issued, restarts>>

\* history of SpecFail: the records whose append failed
ShadowLost(rec) == shadow' = shadow \cup {rec}

\* SpecFail: one handler at a time on a WAL that holds collection "a" and whose
\* appends may fail
FailRequests ==
  { CreateReq("b", 1, "l2"),
    UpsertReq("a", <<Point("q", <<0>>, ""), Point("r", <<1>>, "{}")>>),
    UpsertReq("a", <<Point("p", <<1>>, "{\"k\":1}")>>),
    UpsertReq("b", <<Point("u", <<1>>, "")>>),
    QueryReq("a", <<1>>, 2, "", TRUE, <<>>),
    QueryReq("b", <<1>>, 1, "", TRUE, <<>>) }

InitFail ==
  /\ walOpen = TRUE
  /\ fileExists = TRUE
  /\ file = ConcWal
  /\ catalog = ReplayWal(walOpen, file)
  /\ lock = FreeLock
  /\ th = [t \in Threads |-> Idle]
  /\ uuid = 0
  /\ issued = 0
  /\ restarts = 0
  /\ shadow = {}

NextFail ==
  \/ \E r \in FailRequests : Issue(1, r) /\ UNCHANGED shadow
  \/ CcWrite(1) /\ UNCHANGED shadow
  \/ CcInsert(1) /\ UNCHANGED shadow
  \/ CcWal(1) /\ UNCHANGED shadow
  \/ CcWalErr(1) /\ ShadowLost(CreateRecord(th[1].req))
  \/ UpGet(1) /\ UNCHANGED shadow
  \/ UpDims(1) /\ UNCHANGED shadow
  \/ UpWrite(1) /\ UNCHANGED shadow
  \/ UpIds(1) /\ UNCHANGED shadow
  \/ UpPayloads(1) /\ UNCHANGED shadow
  \/ UpWal(1) /\ UNCHANGED shadow
  \/ UpWalErr(1) /\ ShadowLost(Head(th[1].wal_records))
  \/ QGet(1) /\ UNCHANGED shadow
  \/ QDims(1) /\ UNCHANGED shadow
  \/ QRead(1) /\ UNCHANGED shadow
  \/ QScan(1) /\ UNCHANGED shadow

SpecFail == InitFail /\ [][NextFail]_vars

\* the collection holds a complete row with the id, vector and payload of rec
HasRow(coll, rec) ==
  \E i \in 1..Min(Len(coll.index.ids), Len(coll.index.payloads)) :
    /\ coll.index.ids[i] = rec.id
    /\ RowVector(coll.index, i) = rec.vector
    /\ coll.index.payloads[i] = rec.payload_json

\* the mutation of a record is in the catalog
Applied(rec) ==
  IF rec.type = "CreateCollection"
  THEN rec.name \in DOMAIN catalog /\ catalog[rec.name].dim = rec.dim
  ELSE rec.collection \in DOMAIN catalog /\ HasRow(catalog[rec.collection], rec)

\* the mutations whose append failed are in the catalog
LostStillApplied == \A rec \in shadow : Applied(rec)

\* a step in which an append fails: the catalog stays, the handler ends with OK
\* or goes on to the next record of its batch
FailedAppendGoesOn ==
  (shadow' # shadow) =>
    /\ catalog' = catalog
    /\ th'[1].pc = "done" => th'[1].resp.status = "OK"
    /\ (th[1].pc = "up_wal" /\ Len(th[1].wal_records) > 1) =>
         /\ th'[1].pc = "up_wal"
         /\ th'[1].wal_records = Tail(th[1].wal_records)
         /\ th'[1].prepared = th[1].prepared

\* a search that ended with OK lists, among its hits, every row of its
\* collection whose append failed, when top_k leaves room for all the rows
LostVisible ==
  (/\ th[1].pc = "done" /\ th[1].req.op = "Query" /\ th[1].resp.status = "OK"
   /\ th[1].req.top_k >= IndexLen(catalog[th[1].req.collection].index))
    => \A rec \in shadow :
         (rec.type = "Upsert" /\ rec.collection = th[1].req.collection)
           => \E i \in 1..Len(th[1].resp.hits) :
                /\ th[1].resp.hits[i].id = rec.id
                /\ th[1].resp.hits[i].payload_json = rec.payload_json

\* C11: when a WAL append fails after the mutation succeeded in memory, the
\* mutation is not rolled back: the request still ends with OK, the collection
\* or rows stay in the catalog and in the hits of later searches, and the other
\* records of the batch are still attempted.
C11_NoRollback ==
  [](LostStillApplied /\ LostVisible) /\ [][FailedAppendGoesOn]_vars

\* of a two-point batch the append of the first record failed and that of the
\* second succeeded, and a later search has returned the row of the first
C11_Witness ==
  /\ th[1].pc = "done" /\ th[1].req.op = "Query" /\ th[1].resp.status = "OK"
  /\ \E rec \in shadow :
       /\ rec.type = "Upsert" /\ rec.id = "q"
       /\ \A i \in 1..Len(file) : file[i] # ToLine(rec)
       /\ \E i \in 1..Len(th[1].resp.hits) : th[1].resp.hits[i].id = "q"
  /\ \E i \in 1..Len(file) : file[i].type = "Upsert" /\ file[i].id = "r"

\* ------------------------------------------------------------------ history of upserts
\* history of SpecHist: the batches in the order in which their write guard was
\* dropped, the records of the upserts that returned OK to each thread, and the
\* index each thread found when it took the write guard
HistInit ==
  [applied |-> <<>>,
   mine |-> [t \in Threads |-> {}],
   before |-> [t \in Threads |-> NewIndex(0, "L2")]]

HistWrite(t) ==
  shadow' = [shadow EXCEPT !.before[t] =
               IF th'[t].pc = "up_ids" THEN catalog[th[t].req.collection].index ELSE @]

HistApplied(t) ==
  shadow' = [shadow EXCEPT !.applied =
               Append(@, [t |-> t, collection |-> th[t].req.collection,
                          rows |-> th[t].prepared])]

HistReturned(t) ==
  shadow' = [shadow EXCEPT !.mine[t] =
               IF th'[t].pc = "done"
               THEN @ \cup { UpsertRecord(th[t].req.collection, th[t].prepared[i]) :
                             i \in 1..Len(th[t].prepared) }
               ELSE @]

\* SpecHist: two handler threads upserting into and searching collection "a"
HistRequests ==
  { UpsertReq("a", <<Point("p", <<1>>, "{}"), Point("p", <<0>>, "")>>),
    UpsertReq("a", <<Point("q", <<0>>, ""), Point("r", <<1>>, "{}")>>),
    UpsertReq("a", <<Point("", <<1>>, "")>>),
    UpsertReq("a", <<Point("s", <<1, 0>>, "")>>),
    QueryReq("a", <<1>>, 4, "", TRUE, <<>>) }

InitHist ==
  /\ walOpen = TRUE
  /\ fileExists = TRUE
  /\ file = ConcWal
  /\ catalog = ReplayWal(walOpen, file)
  /\ lock = FreeLock
  /\ th = [t \in Threads |-> Idle]
  /\ uuid = 0
  /\ issued = 0
  /\ restarts = 0
  /\ shadow = HistInit

NextHist ==
  \E t \in Threads :
    \/ \E r \in HistRequests : Issue(t, r) /\ UNCHANGED shadow
    \/ UpGet(t) /\ UNCHANGED shadow
    \/ UpDims(t) /\ UNCHANGED shadow
    \/ UpWrite(t) /\ HistWrite(t)
    \/ UpIds(t) /\ UNCHANGED shadow
    \/ UpPayloads(t) /\ HistApplied(t)
    \/ UpWal(t) /\ HistReturned(t)
    \/ QGet(t) /\ UNCHANGED shadow
    \/ QDims(t) /\ UNCHANGED shadow
    \/ QRead(t) /\ UNCHANGED shadow
    \/ QScan(t) /\ UNCHANGED shadow

SpecHist == InitHist /\ [][NextHist]_vars

\* the hits hold a row with the id and payload of rec
InHits(hits, rec) ==
  \E i \in 1..Len(hits) :
    hits[i].id = rec.id /\ hits[i].payload_json = rec.payload_json

\* C12: a search that a thread issues after its own Upsert on the collection
\* returned OK scans every row of that upsert, whatever the other thread does;
\* with top_k no smaller than the collection, the rows are among its hits.
C12_ReadYourWrites ==
  \A t \in Threads :
    \A rec \in shadow.mine[t] :
      /\ (th[t].pc = "q_scan" /\ th[t].req.collection = rec.collection)
           => HasRow(catalog[rec.collection], rec)
      /\ (/\ th[t].pc = "done" /\ th[t].req.op = "Query"
          /\ th[t].resp.status = "OK"
          /\ th[t].req.collection = rec.collection
          /\ th[t].req.top_k >= IndexLen(catalog[rec.collection].index))
           => InHits(th[t].resp.hits, rec)

\* a thread's search has returned the row of its own earlier upsert while the
\* other thread is in the middle of an upsert
C12_Witness ==
  \E t, u \in Threads :
    /\ t # u
    /\ th[t].pc = "done" /\ th[t].req.op = "Query" /\ th[t].resp.status = "OK"
    /\ \E rec \in shadow.mine[t] : InHits(th[t].resp.hits, rec)
    /\ th[u].pc \in {"up_write", "up_ids", "up_payloads", "up_wal"}

\* the rows of the applied batches of collection c, in the order of the history
RECURSIVE RowsOf(_, _)
RowsOf(applied, c) ==
  IF applied = <<>> THEN <<>>
  ELSE (IF Head(applied).collection = c THEN Head(applied).rows ELSE <<>>)
       \o RowsOf(Tail(applied), c)

IsPrefix(a, b) == Len(a) <= Len(b) /\ SubSeq(b, 1, Len(a)) = a

\* the columns of collection c begin with the applied batches, each batch whole
\* and in its own order, and hold nothing else unless a writer is in the middle
\* of a batch
BatchesInOrder(c) ==
  LET rows == RowsOf(shadow.applied, c)
      index == catalog[c].index
  IN /\ IsPrefix(PointIds(rows), index.ids)
     /\ IsPrefix(Flatten(PointVectors(rows)), index.vectors)
     /\ IsPrefix(PointPayloads(rows), index.payloads)
     /\ lock.writer = 0 =>
          /\ Len(index.ids) = Len(rows)
          /\ Len(index.vectors) = Len(rows) * index.dim
          /\ Len(index.payloads) = Len(rows)

\* the batch of an upsert that has returned is in the order already when another
\* upsert has not yet taken the write guard
RealTimeOrder ==
  \A t, u \in Threads :
    (/\ th[t].pc = "done" /\ th[t].req.op = "Upsert" /\ th[t].resp.status = "OK"
     /\ th[t].req.points # <<>>
     /\ th[u].pc \in {"up_get", "up_dims", "up_write"})
      => \E i \in 1..Len(shadow.applied) :
           shadow.applied[i].t = t /\ shadow.applied[i].rows = th[t].prepared

\* the order of the batches grows at its end only
OrderKept == IsPrefix(shadow.applied, shadow'.applied)

\* C13: the upserts on one collection take effect one batch at a time in a
\* single order: the rows of a batch are contiguous and in the batch's order,
\* batches do not interleave, a search scans whole batches in that order, and an
\* upsert that returned before another began comes first.
C13_Linearizable ==
  /\ [](/\ \A c \in DOMAIN catalog : BatchesInOrder(c)
        /\ \A t \in Threads : th[t].pc = "q_scan" => lock.writer = 0
        /\ RealTimeOrder)
  /\ [][OrderKept]_vars

\* a batch is applied, a thread is in the middle of writing a two-point batch
\* and the other waits for the write guard with a two-point batch of its own
C13_Witness ==
  \E t, u \in Threads :
    /\ Len(shadow.applied) = 1
    /\ th[t].pc \in {"up_ids", "up_payloads"} /\ Len(th[t].prepared) = 2
    /\ th[u].pc = "up_write" /\ Len(th[u].prepared) = 2

\* the step that ends the column writes of a batch leaves the index that the
\* thread found under the write guard, extended by one row per point of the
\* request, ids as given or minted
NoDedupStep ==
  \A t \in Threads :
    (th[t].pc = "up_payloads" /\ th'[t].pc = "up_wal") =>
      LET old == shadow.before[t]
          new == catalog'[th[t].req.collection].index
          pts == th[t].prepared
      IN /\ Len(pts) = Len(th[t].req.points)
         /\ new.ids = old.ids \o PointIds(pts)
         /\ new.vectors = old.vectors \o Flatten(PointVectors(pts))
         /\ new.payloads = old.payloads \o PointPayloads(pts)
         /\ \A i \in 1..Len(pts) :
              th[t].req.points[i].id # "" => pts[i].id = th[t].req.points[i].id

\* an Upsert that ended with OK returned the number of its points
ReturnsN ==
  \A t \in Threads :
    (th[t].pc = "done" /\ th[t].req.op = "Upsert" /\ th[t].resp.status = "OK")
      => th[t].resp.upserted = Len(th[t].req.points)

\* C19: a successful Upsert of n points adds n rows at the end of the collection
\* and returns n, also when an id is that of an existing row or of another point
\* of the batch; the rows stored before stay as they were.
C19_NoDedup == []ReturnsN /\ [][NoDedupStep]_vars

\* a batch of two points with the same id has been upserted twice, each time
\* returning 2, and the collection holds four rows with that id
C19_Witness ==
  /\ "a" \in DOMAIN catalog
  /\ Count(catalog["a"].index.ids, "p") = 4
  /\ \E t \in Threads :
       /\ th[t].pc = "done" /\ th[t].req.op = "Upsert"
       /\ th[t].resp.status = "OK" /\ th[t].resp.upserted = 2
       /\ th[t].req.points[1].id = th[t].req.points[2].id

\* ------------------------------------------------------------------ searches
\* FlatIndex::l2 / dot / cosine on a query of the index's dim
FlatScore(metric, q, v) ==
  CASE metric = "L2" -> FNeg(L2From(q, v, 1))
    [] metric = "IP" -> DotFrom(q, v, 1)
    [] OTHER -> Cosine(q, v)

\* FlatIndex::search_topk on a query of the index's dim: pairs (idx, score)
SearchTopk(index, query, top_k, metric_override) ==
  IF IndexLen(index) = 0 \/ top_k = 0 THEN <<>>
  ELSE LET metric == IF metric_override = "" THEN index.metric ELSE metric_override
           best == [i \in 1..IndexLen(index) |->
                      [idx |-> i, score |-> FlatScore(metric, query, RowVector(index, i))]]
           k == Min(top_k, Len(best))
       IN IF k > 0 THEN InsertionSort(SubSeq(SelectNth(best, k), 1, k)) ELSE best

\* `scored` of Collection::search after select, truncate and sort
SearchBest(coll, query, top_k, metric_override, filters) ==
  LET metric == IF metric_override = "" THEN coll.metric ELSE metric_override
  IN TopK(ScoredFrom(coll, query, metric, filters, 1), top_k)

MaxRows == 3
MaxQueries == 2

SearchPoints ==
  { Point("a", <<0>>, "{\"k\":1}"),
    Point("b", <<1>>, "{\"k\":\"1\"}"),
    Point("c", <<2>>, "{\"k\":1,\"j\":\"x\"}"),
    Point("d", <<NaN>>, "{\"k\":true}"),
    Point("e", <<1>>, "{\"k\":null}"),
    Point("f", <<2>>, "[1]"),
    Point("g", <<0>>, "{\"k\":[1]}"),
    Point("h", <<1>>, "{\"k\":{\"j\":1}}") }

SearchCreate == CreateReq("a", 1, "ip")

\* the catalog after CreateCollection("a") and an Upsert of the rows
SearchCatalog(rows) ==
  UpsertPoints(
    CatalogCreate(EmptyCatalog, SearchCreate.name, SearchCreate.dims,
                  MetricFromStr(SearchCreate.metric)).cat,
    "a", rows).cat

SearchRequests ==
  { QueryReq("a", <<1>>, k, "", TRUE, <<>>) : k \in 0..MaxRows }
    \cup
  { QueryReq("a", <<1>>, 2, "l2", FALSE, <<>>),
    QueryReq("a", <<1>>, 3, "cosine", TRUE, <<>>),
    QueryReq("a", <<1>>, 3, "", FALSE, <<<<"k", "1">>>>),
    QueryReq("a", <<1>>, 1, "", TRUE, <<<<"k", "true">>>>),
    QueryReq("a", <<1>>, 3, "", TRUE, <<<<"k", "1">>, <<"j", "x">>>>),
    QueryReq("a", <<1>>, 3, "l2", TRUE, <<<<"k", "null">>>>),
    QueryReq("a", <<1>>, 3, "", TRUE, <<<<"k", "[1]">>>>),
    QueryReq("a", <<1>>, 3, "", TRUE, <<<<"k", "{\"j\":1}">>>>) }

\* history of SpecSearch: what the last scan selected, what search_topk gives
\* for the same index, query, top_k and override, and whether a query with a
\* metric override has been answered
SearchHist ==
  [best |-> <<>>, topk |-> <<>>, overrode |-> FALSE]

ShadowScan(t) ==
  LET r == th[t].req
      coll == catalog[r.collection]
      over == IF r.metric_override = "" THEN "" ELSE MetricFromStr(r.metric_override)
  IN shadow' = [best |-> SearchBest(coll, r.vector, r.top_k, over, r.filters),
                topk |-> SearchTopk(coll.index, r.vector, r.top_k, over),
                overrode |-> shadow.overrode \/ r.metric_override # ""]

\* a new request: the selection of the scan before is forgotten
ShadowForget == shadow' = [shadow EXCEPT !.best = <<>>, !.topk = <<>>]

\* SpecSearch: Query requests on a collection of any rows
InitSearch ==
  /\ walOpen = TRUE
  /\ fileExists = TRUE
  /\ \E rows \in SeqsUpTo(SearchPoints, MaxRows) :
       /\ catalog = SearchCatalog(rows)
       /\ file = AppendAll(<<ToLine(CreateRecord(SearchCreate))>>, WalRecords("a", rows))
  /\ lock = FreeLock
  /\ th = [t \in Threads |-> Idle]
  /\ uuid = 0
  /\ issued = 0
  /\ restarts = 0
  /\ shadow = SearchHist

NextSearch ==
  \/ \E r \in SearchRequests : issued < MaxQueries /\ Issue(1, r) /\ ShadowForget
  \/ QGet(1) /\ UNCHANGED shadow
  \/ QDims(1) /\ UNCHANGED shadow
  \/ QRead(1) /\ UNCHANGED shadow
  \/ QScan(1) /\ ShadowScan(1)

SpecSearch == InitSearch /\ [][NextSearch]_vars

\* x > y on f32: false when either is NaN
FGt(x, y) == x # NaN /\ y # NaN /\ x > y

\* best is a selection of min(k, len) of the scored rows, no later one with a
\* greater score than an earlier one, and no row left out has a greater score
\* than a selected one
TopKOk(all, best, k) ==
  /\ Len(best) = Min(k, Len(all))
  /\ \A i \in 1..Len(best) : \E a \in 1..Len(all) : all[a] = best[i]
  /\ \A i, j \in 1..Len(best) :
       /\ i < j => ~FGt(best[j].score, best[i].score)
       /\ i # j => best[i].idx # best[j].idx
  /\ \A a \in 1..Len(all) :
       (\A i \in 1..Len(best) : best[i].idx # all[a].idx)
         => \A i \in 1..Len(best) : ~FGt(all[a].score, best[i].score)

\* the hits of the response are the selected rows, in order
HitsOf(coll, best, hits) ==
  /\ Len(hits) = Len(best)
  /\ \A i \in 1..Len(best) :
       hits[i].id = coll.index.ids[best[i].idx] /\ hits[i].score = best[i].score

\* a Query of thread 1 has ended with OK
Answered == th[1].pc = "done" /\ th[1].req.op = "Query" /\ th[1].resp.status = "OK"

\* the metric of the answered query
AnsweredMetric ==
  IF th[1].req.metric_override = "" THEN catalog[th[1].req.collection].metric
  ELSE MetricFromStr(th[1].req.metric_override)

\* C14: a search without filters, and search_topk on the same index, return
\* min(k, len()) hits in descending order of score which are the k rows of
\* highest score; none when k = 0 or the collection is empty.
C14_TopK ==
  (Answered /\ th[1].req.filters = <<>>) =>
    LET coll == catalog[th[1].req.collection]
        all == ScoredFrom(coll, th[1].req.vector, AnsweredMetric, <<>>, 1)
    IN /\ TopKOk(all, shadow.best, th[1].req.top_k)
       /\ TopKOk(all, shadow.topk, th[1].req.top_k)
       /\ HitsOf(coll, shadow.best, th[1].resp.hits)
       /\ (th[1].req.top_k = 0 \/ IndexLen(coll.index) = 0) => th[1].resp.hits = <<>>

\* a search with top_k = 2 on three rows of scores 0, NaN, 1 has been answered
C14_NaNRows ==
  /\ Answered /\ th[1].req.filters = <<>> /\ th[1].req.top_k = 2
  /\ catalog["a"].index.vectors = <<0, NaN, 1>>

\* the payload is a JSON object and each pair (key, expected) meets a top-level
\* field of that key whose value is a string equal to expected, or a number or
\* a boolean whose text is expected
Matches(payload, filters) ==
  LET j == JsonObject(payload) IN
  /\ j.obj
  /\ \A n \in 1..Len(filters) :
       \E f \in j.fields :
         /\ f[1] = filters[n][1]
         /\ f[2] \notin {"null", "array", "object"}
         /\ f[3] = filters[n][2]

MatchingRows(coll, filters) ==
  { i \in 1..IndexLen(coll.index) : Matches(coll.index.payloads[i], filters) }

\* C15: a search with filters selects only rows whose payload is a JSON object
\* matching every filter pair, min(k, number of such rows) of them, hence all
\* of them when k is large enough; null, array and nested values, missing keys
\* and payloads that are not objects do not match.
C15_Filtered ==
  (Answered /\ th[1].req.filters # <<>>) =>
    LET coll == catalog[th[1].req.collection]
        rows == MatchingRows(coll, th[1].req.filters)
    IN /\ \A i \in 1..Len(shadow.best) : shadow.best[i].idx \in rows
       /\ \A i, j \in 1..Len(shadow.best) :
            i # j => shadow.best[i].idx # shadow.best[j].idx
       /\ Len(shadow.best) = Min(th[1].req.top_k, Cardinality(rows))
       /\ HitsOf(coll, shadow.best, th[1].resp.hits)

\* a search with two filter pairs on rows of which one matches both pairs, one
\* matches a single pair and one is not a JSON object has returned the first only
C15_Witness ==
  /\ Answered
  /\ Len(th[1].req.filters) = 2
  /\ catalog["a"].index.ids = <<"a", "c", "f">>
  /\ Len(th[1].resp.hits) = 1
  /\ th[1].resp.hits[1].id = "c"

\* no step of a Query changes a collection or the WAL
QueryReadOnly ==
  (\E t \in Threads : th[t].req.op = "Query" \/ th'[t].req.op = "Query") =>
    /\ catalog' = catalog
    /\ file' = file
    /\ fileExists' = fileExists

\* an answered query without override was scored with the metric the collection
\* was created with
DefaultMetricKept ==
  (Answered /\ th[1].req.metric_override = "") =>
    LET coll == catalog[th[1].req.collection] IN
    /\ coll.metric = MetricFromStr(SearchCreate.metric)
    /\ coll.index.metric = coll.metric
    /\ \A i \in 1..Len(shadow.best) :
         shadow.best[i].score =
           Score(coll.metric, th[1].req.vector, RowVector(coll.index, shadow.best[i].idx))

\* C16: a Query, whatever its metric override, filters, top_k and with_payloads,
\* leaves every collection and the WAL as they were, and an override holds for
\* its own query only: a later query without override is scored with the
\* collection's metric.
C16_QueryReadOnly == []DefaultMetricKept /\ [][QueryReadOnly]_vars

\* after a query with a metric override, a query without one has returned a row
\* of vector [2] with its inner-product score
C16_Witness ==
  /\ Answered
  /\ th[1].req.metric_override = ""
  /\ shadow.overrode
  /\ Len(th[1].resp.hits) > 0
  /\ th[1].resp.hits[1].score = 2

\* every collection of c1 is in c2 with its dim and metric, and its rows are
\* the first rows of the collection in c2
Within(c1, c2) ==
  \A n \in DOMAIN c1 :
    /\ n \in DOMAIN c2
    /\ c2[n].dim = c1[n].dim
    /\ c2[n].metric = c1[n].metric
    /\ IsPrefix(c1[n].index.ids, c2[n].index.ids)
    /\ IsPrefix(c1[n].index.vectors, c2[n].index.vectors)
    /\ IsPrefix(c1[n].index.payloads, c2[n].index.payloads)

\* no step of a DbState removes a collection or a row, or changes a stored row
NeverRemoved == restarts' = restarts => Within(catalog, catalog')

\* replaying one more record of a file never removes anything
ReplayGrows ==
  LET r == WalReplay(file) IN
  \A i \in 1..Len(r.records) :
    Within(ApplyRecords(EmptyCatalog, SubSeq(r.records, 1, i - 1)),
           ApplyRecords(EmptyCatalog, SubSeq(r.records, 1, i)))

\* the collection of a handle obtained from Catalog::get is in the catalog
HandleValid ==
  \A t \in Threads :
    th[t].pc \in {"up_dims", "up_write", "up_ids", "up_payloads", "up_wal",
                  "q_dims", "q_read", "q_scan"}
      => ContainsKey(catalog, th[t].req.collection)

\* C17: within the life of a DbState nothing is removed: replay and every
\* request, failed or not, leave each collection in place with its dim and
\* metric and each stored row at its index with its id, vector and payload, so
\* a handle from Catalog::get always finds its collection.
C17_NeverRemoved == [](ReplayGrows /\ HandleValid) /\ [][NeverRemoved]_vars

\* a collection replayed from the WAL with a row has received a second row, and
\* a request has failed since
C17_Witness ==
  /\ Len(WalReplay(file).records) >= 3
  /\ "a" \in DOMAIN catalog
  /\ IndexLen(catalog["a"].index) >= 2
  /\ th[1].pc = "done" /\ th[1].resp.status \notin {"OK", ""}

\* line carries the id, vector and payload of row i of the collection
CarriesRow(line, coll, i) ==
  /\ line.type = "Upsert"
  /\ line.collection = coll.name
  /\ line.id = coll.index.ids[i]
  /\ line.id # ""
  /\ line.vector = RowVector(coll.index, i)
  /\ line.payload_json = coll.index.payloads[i]

\* the last m lines of the file carry, in order, the first m of the last n rows
\* of the collection
LastLinesCarry(coll, n, m) ==
  /\ Len(file) >= m
  /\ IndexLen(coll.index) >= n
  /\ \A i \in 1..m :
       CarriesRow(file[Len(file) - m + i], coll, IndexLen(coll.index) - n + i)

\* while it appends and when it has returned OK, an Upsert of n points has its
\* n rows in memory and as many lines in the file as records it has appended
RecordPerPoint ==
  (walOpen /\ th[1].req.op = "Upsert" /\ th[1].req.points # <<>>) =>
    LET n == Len(th[1].req.points)
        coll == catalog[th[1].req.collection]
    IN /\ th[1].pc = "up_wal" =>
            /\ Len(th[1].prepared) = n
            /\ LastLinesCarry(coll, n, n - Len(th[1].wal_records))
       /\ (th[1].pc = "done" /\ th[1].resp.status = "OK") =>
            LastLinesCarry(coll, n, n)

\* an Upsert adds a line to the file in the turns of its loop over wal_records
\* only, one line a turn
OneLineATurn ==
  (walOpen /\ th[1].req.op = "Upsert" /\ th'[1] # th[1]) =>
    IF th[1].pc = "up_wal"
    THEN Len(file') = Len(file) + 1 /\ IsPrefix(file, file')
    ELSE file' = file

\* C18: a successful Upsert of n points appends n Upsert records to the WAL,
\* after the whole batch is in memory and in batch order, each with the id
\* (minted when the request gave none), vector and payload of its row.
C18_RecordPerPoint == []RecordPerPoint /\ [][OneLineATurn]_vars

\* an Upsert of a point with a NaN component has returned OK with the WAL on
C18_NaNBatch ==
  /\ walOpen
  /\ th[1].pc = "done" /\ th[1].req.op = "Upsert" /\ th[1].resp.status = "OK"
  /\ \E i \in 1..Len(th[1].req.points) : th[1].req.points[i].vector = <<NaN>>

\* line i of the file is an Upsert record that replay applies: the record that
\* creates its collection comes before it and gives the dim of its vector
CanReplay(i) ==
  \E j \in 1..(i - 1) :
    /\ file[j].type = "CreateCollection"
    /\ file[j].name = file[i].collection
    /\ file[j].dim = Len(file[i].vector)

\* replay of the file gives a row for each of its Upsert lines
ReplayAppliesAll ==
  LET r == WalReplay(file) IN
  /\ r.ok
  /\ \A c \in {"a", "b"} :
       Len(UpsertLinesOf(file, c)) =
         (IF c \in DOMAIN ReplayWal(TRUE, file)
          THEN IndexLen(ReplayWal(TRUE, file)[c].index) ELSE 0)

\* C20: every Upsert record of the WAL follows the CreateCollection record of
\* its collection and has a vector of that collection's dim, so a replay of the
\* WAL applies every record.
C20_Replayable ==
  /\ \A i \in 1..Len(file) : file[i].type = "Upsert" => CanReplay(i)
  /\ ReplayAppliesAll

\* a thread has created collection "b" and has not yet appended its record,
\* and the other thread has appended an Upsert record for "b"
C20_UpsertFirst ==
  \E t \in Threads :
    /\ th[t].pc = "cc_wal" /\ th[t].req.name = "b"
    /\ \E i \in 1..Len(file) : file[i].type = "Upsert" /\ file[i].collection = "b"

\* the records without the CreateCollection records of a name that an earlier
\* record of the sequence has created; seen is the set of names created so far
RECURSIVE WithoutDupCreates(_, _)
WithoutDupCreates(recs, seen) ==
  IF recs = <<>> THEN <<>>
  ELSE LET r == Head(recs) IN
       IF r.type = "CreateCollection"
       THEN IF r.name \in seen THEN WithoutDupCreates(Tail(recs), seen)
            ELSE <<r>> \o WithoutDupCreates(Tail(recs), seen \cup {r.name})
       ELSE <<r>> \o WithoutDupCreates(Tail(recs), seen)

\* the first CreateCollection record of the name in the sequence
FirstCreate(recs, name) ==
  recs[CHOOSE i \in 1..Len(recs) :
         /\ recs[i].type = "CreateCollection" /\ recs[i].name = name
         /\ \A j \in 1..(i - 1) :
              ~(recs[j].type = "CreateCollection" /\ recs[j].name = name)]

\* C21: replay of a WAL whose lines all parse gives what replay gives without
\* the CreateCollection records that repeat a name: each collection has the dim
\* and metric of its first record, and the records after a repeated one are
\* applied as they would be without it.
C21_DuplicateCreateIgnored ==
  LET r == WalReplay(file) IN
  r.ok =>
    /\ ReplayWal(TRUE, file) = ApplyRecords(EmptyCatalog, WithoutDupCreates(r.records, {}))
    /\ \A n \in DOMAIN ReplayWal(TRUE, file) :
         /\ ReplayWal(TRUE, file)[n].dim = FirstCreate(r.records, n).dim
         /\ ReplayWal(TRUE, file)[n].metric = MetricFromStr(FirstCreate(r.records, n).metric)
    /\ Fresh => catalog = ReplayWal(TRUE, file)

\* a DbState opened on a WAL that creates "a" with dim 1, creates "a" again with
\* dim 2 and then upserts a point of dim 1 holds "a" with dim 1 and that point
C21_Witness ==
  /\ Fresh
  /\ Len(file) = 3
  /\ file[1] = ToLine(CreateRecord(CreateReq("a", 1, "l2")))
  /\ file[2] = ToLine(CreateRecord(CreateReq("a", 2, "Cosine")))
  /\ file[3].type = "Upsert" /\ file[3].collection = "a"
  /\ "a" \in DOMAIN catalog
  /\ catalog["a"].dim = 1
  /\ catalog["a"].metric = "L2"
  /\ IndexLen(catalog["a"].index) = 1

\* x == y on f32: false when either is NaN
FEq(x, y) == x # NaN /\ y # NaN /\ x = y

\* among the selected rows those of equal score are in ascending order of row
\* index, and a row left out has a greater index than the selected rows of its
\* score
TiesByIndex(all, best) ==
  /\ \A i, j \in 1..Len(best) :
       (i < j /\ FEq(best[i].score, best[j].score)) => best[i].idx < best[j].idx
  /\ \A a \in 1..Len(all) :
       (\A i \in 1..Len(best) : best[i].idx # all[a].idx)
         => \A i \in 1..Len(best) :
              FEq(all[a].score, best[i].score) => best[i].idx < all[a].idx

\* the rows that the answered query scored
AnsweredScored ==
  ScoredFrom(catalog[th[1].req.collection], th[1].req.vector, AnsweredMetric,
             th[1].req.filters, 1)

\* C22: hits of equal score come in ascending row-index order, and of the rows
\* that tie at the k-th score those of smaller index are returned, in
\* Collection::search and in search_topk.
C22_TiesByIndex ==
  Answered =>
    /\ TiesByIndex(AnsweredScored, shadow.best)
    /\ th[1].req.filters = <<>> => TiesByIndex(AnsweredScored, shadow.topk)

\* a search with top_k = 3 on three rows of scores 1, 2, 2 has been answered
C22_TiedRows ==
  /\ Answered /\ th[1].req.filters = <<>> /\ th[1].req.top_k = 3
  /\ th[1].req.metric_override = ""
  /\ catalog["a"].index.vectors = <<1, 2, 2>>
  /\ catalog["a"].index.ids = <<"b", "c", "f">>

\* the number of rows of all whose score is not NaN
RECURSIVE RealScores(_)
RealScores(all) ==
  IF all = <<>> THEN 0
  ELSE (IF Head(all).score # NaN THEN 1 ELSE 0) + RealScores(Tail(all))

\* no NaN score is selected while k rows of real score exist
NoNaNCrowding(all, best, k) ==
  RealScores(all) >= k => \A i \in 1..Len(best) : best[i].score # NaN

\* C23: a row whose score is NaN is never returned in place of a row with a
\* real score: when at least k of the scored rows have non-NaN scores no hit
\* has a NaN score, in Collection::search and in search_topk; and the scan
\* answers OK (no panic) whatever the scores.
C23_NaNLast ==
  /\ th[1].pc = "done" => th[1].resp.status # "Panicked"
  /\ Answered =>
       /\ NoNaNCrowding(AnsweredScored, shadow.best, th[1].req.top_k)
       /\ th[1].req.filters = <<>> =>
            NoNaNCrowding(AnsweredScored, shadow.topk, th[1].req.top_k)

\* a search with top_k = 2 has been answered on three rows of which one has a
\* NaN score and two have real scores
C23_NaNAmongReal ==
  /\ Answered /\ th[1].req.filters = <<>> /\ th[1].req.top_k = 2
  /\ th[1].req.metric_override = ""
  /\ catalog["a"].index.vectors = <<0, NaN, 1>>

\* the collection that holds only the rows of coll whose payload satisfies the
\* filters, in the same relative order
SubCollection(coll, filters) ==
  LET keep(i) == Matches(coll.index.payloads[i], filters)
      F[i \in 0..IndexLen(coll.index)] ==
        IF i = 0 THEN NewIndex(coll.index.dim, coll.index.metric)
        ELSE IF keep(i)
             THEN [F[i - 1] EXCEPT
                     !.vectors = @ \o RowVector(coll.index, i),
                     !.ids = Append(@, coll.index.ids[i]),
                     !.payloads = Append(@, coll.index.payloads[i])]
             ELSE F[i - 1]
  IN [coll EXCEPT !.index = F[IndexLen(coll.index)]]

\* C24: a search with a non-empty filter set returns the hits (ids, scores,
\* payloads, order) of the same search without filters over the collection
\* that holds only the rows satisfying the filters.
C24_FilterIdempotent ==
  (Answered /\ th[1].req.filters # <<>>) =>
    LET r == th[1].req
        sub == SubCollection(catalog[r.collection], r.filters)
    IN th[1].resp.hits = QueryHits(sub, [r EXCEPT !.filters = <<>>])

\* a filtered search has left out the row of highest score, whose payload does
\* not match, and returned the two rows that match
C24_Witness ==
  /\ Answered
  /\ th[1].req.filters = <<<<"k", "1">>>>
  /\ catalog["a"].index.ids = <<"f", "c", "a">>
  /\ Len(th[1].resp.hits) = 2
  /\ th[1].resp.hits[1].id = "c"
  /\ th[1].resp.hits[2].id = "a"

\* every row that a scan of coll visits lies inside the three columns
RowsInBounds(coll) ==
  \A idx \in 1..IndexLen(coll.index) :
    /\ idx * coll.index.dim <= Len(coll.index.vectors)
    /\ idx <= Len(coll.index.ids)
    /\ idx <= Len(coll.index.payloads)

\* C25: every collection has dim >= 1 and the same dim as its index; outside a
\* running add_batch its columns agree (vectors.len() = ids.len() * dim and
\* ids.len() = payloads.len()); and a search that holds its read guard visits
\* only rows that lie inside the columns.
C25_ColumnsAgree ==
  \A c \in DOMAIN catalog :
    /\ catalog[c].dim >= 1
    /\ catalog[c].index.dim = catalog[c].dim
    /\ (\A u \in Threads : ~MidBatch(u, c)) => ColumnsOk(catalog[c])
    /\ \A t \in Threads :
         (th[t].pc = "q_scan" /\ th[t].req.collection = c) =>
           ColumnsOk(catalog[c]) /\ RowsInBounds(catalog[c])

\* a CreateCollection with dims = 0 has been refused while collection "a"
\* holds a row
C25_Witness ==
  /\ th[1].pc = "done"
  /\ th[1].req.op = "CreateCollection"
  /\ th[1].req.dims = 0
  /\ th[1].resp.status = "InvalidArgument"
  /\ "a" \in DOMAIN catalog
  /\ IndexLen(catalog["a"].index) >= 1

\* ------------------------------------------------------------------ Wal::append, write by write
\* The file is its sequence of lines; bytes written after the last LF are the
\* last element [type |-> "Partial", parts |-> the lines written, in order].
HasPartial(f) == f # <<>> /\ f[Len(f)].type = "Partial"

\* f.write_all(line.as_bytes()) on a file opened with append(true)
WalWriteLine(f, rec) ==
  IF HasPartial(f)
  THEN [f EXCEPT ![Len(f)].parts = Append(@, ToLine(rec))]
  ELSE Append(f, [type |-> "Partial", parts |-> <<ToLine(rec)>>])

\* f.write_all(b"\n"): the bytes since the last LF become a line; the texts of
\* several records on one line are not a record, and an LF written straight
\* after an LF makes an empty line
WalWriteLf(f) ==
  IF HasPartial(f)
  THEN LET parts == f[Len(f)].parts IN
       [f EXCEPT ![Len(f)] =
          IF Len(parts) = 1 THEN parts[1] ELSE [type |-> "Joined", parts |-> parts]]
  ELSE Append(f, BlankLine)

\* history of SpecAppend: the records of the append calls that returned Ok, in
\* the order in which they returned
ShadowAppended(rec) == shadow' = IF walOpen THEN Append(shadow, ToLine(rec)) ELSE shadow

\* append_wal of the CreateCollection record: the line, then the LF
CcWalLine(t) ==
  /\ th[t].pc = "cc_wal"
  /\ file' = IF walOpen THEN WalWriteLine(file, CreateRecord(th[t].req)) ELSE file
  /\ th' = Goto(t, "cc_lf")
  /\ UNCHANGED <<catalog, lock, walOpen, fileExists, uuid, issued, restarts>>

CcWalLf(t) ==
  /\ th[t].pc = "cc_lf"
  /\ file' = IF walOpen THEN WalWriteLf(file) ELSE file
  /\ th' = Done(t, Ok(0, <<>>))
  /\ UNCHANGED <<catalog, lock, walOpen, fileExists, uuid, issued, restarts>>

\* one turn of the loop over wal_records: the line, then the LF
UpWalLine(t) ==
  /\ th[t].pc = "up_wal"
  /\ file' = IF walOpen THEN WalWriteLine(file, Head(th[t].wal_records)) ELSE file
  /\ th' = Goto(t, "up_lf")
  /\ UNCHANGED <<catalog, lock, walOpen, fileExists, uuid, issued, restarts>>

UpWalLf(t) ==
  /\ th[t].pc = "up_lf"
  /\ file' = IF walOpen THEN WalWriteLf(file) ELSE file
  /\ th' = IF Len(th[t].wal_records) = 1
           THEN [th EXCEPT ![t].pc = "done", ![t].wal_records = <<>>,
                   ![t].resp = Ok(Len(th[t].prepared), <<>>)]
           ELSE [th EXCEPT ![t].pc = "up_wal", ![t].wal_records = Tail(@)]
  /\ UNCHANGED <<catalog, lock, walOpen, fileExists, uuid, issued, restarts>>

\* SpecAppend: two handler threads whose WAL appends are two writes each, and
\* restarts between requests
AppendRequests ==
  { CreateReq("b", 1, "l2"),
    UpsertReq("a", <<Point("p", <<1>>, "{\"k\":1}")>>),
    UpsertReq("a", <<Point("q", <<0>>, ""), Point("r", <<1>>, "{}")>>) }

InitAppend ==
  /\ walOpen = TRUE
  /\ fileExists = TRUE
  /\ file = ConcWal
  /\ catalog = ReplayWal(walOpen, file)
  /\ lock = FreeLock
  /\ th = [t \in Threads |-> Idle]
  /\ uuid = 0
  /\ issued = 0
  /\ restarts = 0
  /\ shadow = <<>>

NextAppend ==
  \/ \E t \in Threads : \E r \in AppendRequests : Issue(t, r) /\ UNCHANGED shadow
  \/ \E t \in Threads : CcWrite(t) /\ UNCHANGED shadow
  \/ \E t \in Threads : CcInsert(t) /\ UNCHANGED shadow
  \/ \E t \in Threads : CcWalLine(t) /\ UNCHANGED shadow
  \/ \E t \in Threads : CcWalLf(t) /\ ShadowAppended(CreateRecord(th[t].req))
  \/ \E t \in Threads : UpGet(t) /\ UNCHANGED shadow
  \/ \E t \in Threads : UpDims(t) /\ UNCHANGED shadow
  \/ \E t \in Threads : UpWrite(t) /\ UNCHANGED shadow
  \/ \E t \in Threads : UpIds(t) /\ UNCHANGED shadow
  \/ \E t \in Threads : UpPayloads(t) /\ UNCHANGED shadow
  \/ \E t \in Threads : UpWalLine(t) /\ UNCHANGED shadow
  \/ \E t \in Threads : UpWalLf(t) /\ ShadowAppended(Head(th[t].wal_records))
  \/ Restart /\ UNCHANGED shadow

SpecAppend == InitAppend /\ [][NextAppend]_vars

\* the writes that made the file, an LF after each line
RECURSIVE FileWrites(_)
FileWrites(f) ==
  IF f = <<>> THEN <<>>
  ELSE LET l == Head(f) IN
       (CASE l.type = "Partial" -> l.parts
          [] l.type = "Joined" -> Append(l.parts, "LF")
          [] l.type = "Blank" -> <<"LF">>
          [] OTHER -> <<l, "LF">>)
       \o FileWrites(Tail(f))

\* every line of the file is one whole record, but for the record of the one
\* append that may be running at the end of the file
WholeRecords ==
  \A i \in 1..Len(file) :
    \/ Parses(file[i])
    \/ i = Len(file) /\ file[i].type = "Partial" /\ Len(file[i].parts) = 1

\* when no request is running the file holds, after the lines it had at the
\* start, the records of the append calls that returned, in that order
AppendOrder == Quiescent => file = ConcWal \o shadow

\* a step only adds writes at the end of the file
OnlyAppends == IsPrefix(FileWrites(file), FileWrites(file'))

\* C26: the WAL is append-only: no step changes what the file holds and each
\* append adds one whole LF-terminated record at the end, so the file is a
\* sequence of whole records in the order of the append calls that returned;
\* a restart (open and replay) leaves the file as it is.
C26_AppendOnly ==
  /\ [](WholeRecords /\ AppendOrder)
  /\ [][OnlyAppends /\ (restarts' # restarts => file' = file)]_vars

\* two appends have run at the same time: a line of the file holds the texts of
\* two records and the line after it is empty
C26_JoinedLine ==
  \E i \in 1..(Len(file) - 1) :
    /\ file[i].type = "Joined"
    /\ Len(file[i].parts) = 2
    /\ file[i + 1] = BlankLine

\* a thread that passed the validation of upsert_points and has not yet taken
\* the write guard still has its collection, and its vectors have its dim
CheckStillValid ==
  \A t \in Threads :
    th[t].pc = "up_write" =>
      /\ ContainsKey(catalog, th[t].req.collection)
      /\ AddBatchAssert(catalog[th[t].req.collection].index,
                        PointVectors(th[t].prepared))

\* the assertion of add_batch has not failed
NoPanic == \A t \in Threads : th[t].resp.status # "Panicked"

\* a step removes no collection and changes the dim of none
DimsKept ==
  \A c \in DOMAIN catalog :
    /\ c \in DOMAIN catalog'
    /\ catalog'[c].dim = catalog[c].dim
    /\ catalog'[c].index.dim = catalog[c].index.dim

\* C27: under any interleaving of two requests, the dimension check made
\* under the read guard of upsert_points is still valid when the write guard
\* is taken: the assertion of add_batch never fails, since no step changes the
\* dim of a collection or removes or replaces a collection.
C27_DimCheckHolds ==
  /\ [](CheckStillValid /\ NoPanic)
  /\ [][DimsKept]_vars

\* an upsert on "b" has passed the assertion of add_batch while the other
\* thread's CreateCollection of "b" with another dim was refused
C27_Witness ==
  \E t, u \in Threads :
    /\ th[t].pc = "up_ids"
    /\ th[t].req.collection = "b"
    /\ th[u].pc = "done"
    /\ th[u].req.op = "CreateCollection"
    /\ th[u].req.dims = 2
    /\ th[u].resp.status = "AlreadyExists"
    /\ catalog["b"].dim = 1

\* ------------------------------------------------------------------ fair scheduling
\* a step of the handler that thread t runs
HandlerStep(t) ==
  /\ \/ CcWrite(t) \/ CcInsert(t) \/ CcWal(t)
     \/ UpGet(t) \/ UpDims(t) \/ UpWrite(t) \/ UpIds(t) \/ UpPayloads(t) \/ UpWal(t)
     \/ QGet(t) \/ QDims(t) \/ QRead(t) \/ QScan(t)
  /\ UNCHANGED shadow

\* SpecLive: two handler threads under a scheduler that does not leave a
\* handler that can take a step waiting for ever (the runtime polls every ready
\* task, and a guard request on a free lock is granted)
LiveRequests ==
  { CreateReq("b", 1, "l2"),
    UpsertReq("a", <<Point("p", <<1>>, "{\"k\":1}")>>),
    UpsertReq("b", <<Point("q", <<0>>, ""), Point("r", <<1>>, "{}")>>),
    QueryReq("a", <<1>>, 1, "", TRUE, <<>>) }

NextLive ==
  \/ \E t \in Threads : \E r \in LiveRequests : Issue(t, r) /\ UNCHANGED shadow
  \/ \E t \in Threads : CcWrite(t) /\ UNCHANGED shadow
  \/ \E t \in Threads : CcInsert(t) /\ UNCHANGED shadow
  \/ \E t \in Threads : CcWal(t) /\ UNCHANGED shadow
  \/ \E t \in Threads : UpGet(t) /\ UNCHANGED shadow
  \/ \E t \in Threads : UpDims(t) /\ UNCHANGED shadow
  \/ \E t \in Threads : UpWrite(t) /\ UNCHANGED shadow
  \/ \E t \in Threads : UpIds(t) /\ UNCHANGED shadow
  \/ \E t \in Threads : UpPayloads(t) /\ UNCHANGED shadow
  \/ \E t \in Threads : UpWal(t) /\ UNCHANGED shadow
  \/ \E t \in Threads : QGet(t) /\ UNCHANGED shadow
  \/ \E t \in Threads : QDims(t) /\ UNCHANGED shadow
  \/ \E t \in Threads : QRead(t) /\ UNCHANGED shadow
  \/ \E t \in Threads : QScan(t) /\ UNCHANGED shadow

SpecLive ==
  /\ InitConc
  /\ [][NextLive]_vars
  /\ \A t \in Threads : WF_vars(HandlerStep(t))

Busy(t) == th[t].pc \notin {"idle", "done"}

\* a thread holds a guard only inside with_ref (the scan) or inside
\* create_collection and with_mut, where it asks for no guard
NoReentry ==
  \A t \in Threads :
    /\ t \in lock.readers => th[t].pc = "q_scan"
    /\ lock.writer = t => th[t].pc \in {"cc_insert", "up_ids", "up_payloads"}

\* the handler of thread t can take a step: it is running, and the guard it
\* asks for, if any, can be granted
CanStep(t) ==
  /\ Busy(t)
  /\ th[t].pc \in {"cc_write", "up_write"} => CanWrite(lock)
  /\ th[t].pc \in {"up_get", "up_dims", "q_get", "q_dims", "q_read"} => CanRead(lock)

\* while a request is running some handler can take a step
NoDeadlock == (\E t \in Threads : Busy(t)) => \E u \in Threads : CanStep(u)

\* C28: no handler asks for the catalog lock while it holds it, no state with a
\* running request is a deadlock, and under fair scheduling every request of
\* two concurrent threads completes.
C28_Completes ==
  /\ [](NoReentry /\ NoDeadlock)
  /\ \A t \in Threads : Busy(t) ~> (th[t].pc = "done")

\* an upsert waits for the write guard while the other thread's search holds a
\* read guard
C28_Witness ==
  \E t, u \in Threads :
    /\ th[t].pc = "up_write"
    /\ th[u].pc = "q_scan"
    /\ u \in lock.readers
    /\ ~CanStep(t)

\* a restart leaves the WAL as it is, and when no request came since the
\* DbState was opened it leaves the catalog as it is
RestartKeeps ==
  restarts' # restarts =>
    /\ file' = file
    /\ fileExists' = fileExists
    /\ walOpen' = walOpen
    /\ catalog' = ReplayWal(walOpen, file)
    /\ Fresh => catalog' = catalog

\* C29: restart is idempotent: opening a DbState on a WAL only reads it, so a
\* DbState opened again with no request in between has the same collections
\* with the same rows in the same order, and no restart changes the WAL.
C29_RestartIdempotent ==
  /\ [](Fresh => catalog = ReplayWal(walOpen, file))
  /\ [][RestartKeeps]_vars

\* a DbState has been opened a second time on a WAL that holds a collection
\* with a row, with no request in between
C29_Witness ==
  /\ restarts = 1
  /\ issued = 0
  /\ Fresh
  /\ Len(file) >= 2
  /\ "a" \in DOMAIN catalog
  /\ IndexLen(catalog["a"].index) >= 1

\* ------------------------------------------------------------------ a crash
\* history of SpecCrash: the ids of collection "a" when the last request
\* began, the batch of that request when the process stopped, and whether it
\* stopped
CrashHist == [before |-> <<>>, batch |-> <<>>, crashed |-> FALSE]

ShadowBegin ==
  shadow' = [shadow EXCEPT !.before = catalog["a"].index.ids, !.crashed = FALSE]

ShadowCrash ==
  shadow' = IF th[1].pc = "idle"
            THEN [before |-> catalog["a"].index.ids, batch |-> <<>>, crashed |-> TRUE]
            ELSE [shadow EXCEPT !.crashed = TRUE, !.batch = th[1].prepared]

\* the process stops at any point of a handler, memory is lost, and
\* DbState::with_config runs again on the same WAL
Crash ==
  /\ restarts < MaxRestarts
  /\ restarts' = restarts + 1
  /\ catalog' = ReplayWal(walOpen, file)
  /\ lock' = FreeLock
  /\ th' = [t \in Threads |-> Idle]
  /\ UNCHANGED <<walOpen, file, fileExists, uuid, issued>>

\* SpecCrash: one handler thread serving upserts on collection "a", and a
\* process that may stop between any two steps
CrashRequests ==
  { UpsertReq("a", <<Point("p", <<1>>, "{\"k\":1}")>>),
    UpsertReq("a", <<Point("q", <<0>>, ""), Point("r", <<1>>, "{}")>>),
    UpsertReq("a", <<Point("s", <<1>>, ""), Point("t", <<1, 0>>, "")>>) }

InitCrash ==
  /\ walOpen = TRUE
  /\ fileExists = TRUE
  /\ file = ConcWal
  /\ catalog = ReplayWal(walOpen, file)
  /\ lock = FreeLock
  /\ th = [t \in Threads |-> Idle]
  /\ uuid = 0
  /\ issued = 0
  /\ restarts = 0
  /\ shadow = CrashHist

NextCrash ==
  \/ \E r \in CrashRequests : Issue(1, r) /\ ShadowBegin
  \/ UpGet(1) /\ UNCHANGED shadow
  \/ UpDims(1) /\ UNCHANGED shadow
  \/ UpWrite(1) /\ UNCHANGED shadow
  \/ UpIds(1) /\ UNCHANGED shadow
  \/ UpPayloads(1) /\ UNCHANGED shadow
  \/ UpWal(1) /\ UNCHANGED shadow
  \/ Crash /\ ShadowCrash

SpecCrash == InitCrash /\ [][NextCrash]_vars

\* the process stopped and nothing was served since
JustCrashed == shadow.crashed /\ Fresh

\* C30: after the process stopped at any point of an Upsert and the WAL was
\* replayed, the collection holds the rows it had before the batch and either
\* every point of the batch or none.
C30_BatchAtomic ==
  JustCrashed =>
    \/ catalog["a"].index.ids = shadow.before
    \/ catalog["a"].index.ids = shadow.before \o PointIds(shadow.batch)

\* the process stopped between the two WAL appends of a batch of two points,
\* and after the replay the collection holds the first point only
C30_HalfBatch ==
  /\ JustCrashed
  /\ Len(shadow.batch) = 2
  /\ catalog["a"].index.ids = Append(shadow.before, shadow.batch[1].id)

====
